---- MODULE Spec2Model ----
(***************************************************************************)
(* terrarium-webchat: the Agent Gateway (packages/terrarium-client/src/    *)
(* agent.py).  AgentClient._execute_with_retries with its circuit breaker, *)
(* driven by the two tasks of the worker that call it concurrently on one  *)
(* AgentClient: the queue worker (chat, streamed or not) and the status    *)
(* probe loop (probe_llm, never streamed).  A coroutine runs atomically    *)
(* between two awaits, so every action below is one such stretch.          *)
(***************************************************************************)
EXTENDS Integers, Sequences, FiniteSets, TLC

(* ------------------------------ bounds --------------------------------- *)
\* largest max_retries constructor argument tried under Spec
MaxRetriesArg == 2
\* the clock stops at MaxTime seconds under Spec
MaxTime == 4
\* random.random() is drawn from {0, 1/JitterSteps, .., (JitterSteps-1)/JitterSteps}
JitterSteps == 2
\* failed attempts are no longer taken once the counter has reached
\* MaxFailures + max_retries (a whole retry loop on top of MaxFailures)
MaxFailures == 2
\* SpecDeep: one caller, long retry loops
DeepRetriesArg == 6
DeepTime == 16

\* SpecConv, SpecLoop: turns appended to one conversation
MaxTurns == 3
\* SpecConv: the largest max_turns given to prune and to_prompt_messages
MaxPrune == 2
\* SpecWorker: visitor messages the relay receives
MaxVisitorMessages == 2
\* SpecWorker: fetch_messages and post_agent_message calls that fail
MaxRelayFailures == 1
\* SpecLoop: the largest max_tool_iterations
MaxIterations == 3
\* SpecStream: lines one streamed response carries
MaxFrames == 3
\* tool calls in one response
MaxCalls == 2

(* -------------------------- program constants -------------------------- *)
\* max_turns of TerrariumWorker.__init__
WorkerMaxTurns == 16
\* max_turns generate passes to to_prompt_messages
GenerateMaxTurns == 16
\* min(2 ** attempt, 8)
BackoffCap == 8

\* circuit_breaker_failures: reached by the first failure, or by the second
Thresholds == {1, 2}
\* circuit_breaker_cooldown in seconds: over before the first backoff is, or not
Cooldowns == {1, 2}

Callers == {"chat", "probe"}
\* HTTP error statuses the backend answers with (raise_for_status raises on them)
Statuses == {401, 404, 500}
RetryableCategories == {"timeout", "network", "server_error"}
\* Optional[float] = None
NoDeadline == <<>>

VARIABLES
    max_retries_arg,       \* the max_retries argument of __init__
    max_retries,           \* self._max_retries
    circuit_failures,      \* self._circuit_failures
    circuit_cooldown,      \* self._circuit_cooldown
    consecutive_failures,  \* self._consecutive_failures
    circuit_open_until,    \* self._circuit_open_until: <<>> (None) or <<t>>
    now,                   \* what time() returns, in whole seconds
    call,                  \* per caller: the _execute_with_retries frame
    last_failure_at,       \* history: <<>> or <<time of the last _record_failure>>
    \* one run of stream_once (agent.py:171-218)
    sd_pc,                 \* "reading", "finished" (it returned) or "failed" (it raised)
    content_parts,         \* content_parts
    tool_calls,            \* tool_calls
    chunks,                \* the texts on_chunk was awaited with, in order
    message,               \* <<>> or <<the message stream_once returns>>
    sd_sent,               \* history: what the response has carried so far
    \* one Conversation (context.py)
    turns,                 \* self.turns
    seen_message_ids,      \* self._seen_message_ids
    cv_op,                 \* history: the last method called, its arguments, its result
    cv_ingested,           \* history: the message ids ingest has been called with
    cv_added,              \* history: the message ids add_turn has been called with
    cv_serial,             \* history: turns appended so far, used as their content
    \* one run of _run_tool_loop (worker.py:265-332) and of chat(stream=False)
    max_tool_iterations,   \* self.max_tool_iterations
    tl_pc,                 \* "idle", "calling", "returned" or "raised"
    iteration,             \* iteration
    chat_calls,            \* history: agent.chat calls made by the loop
    messages,              \* messages: the roles of the prompt, in order
    tl_result,             \* the content the loop returned, <<>> before
    tl_error,              \* <<>> or <<the AgentClientError the loop raised>>
    tl_last,               \* history: <<>> or <<the last response of agent.chat>>
    tl_runs,               \* history: the tool calls executed for that response
    post,                  \* the last chat(stream=False), generate or probe_llm call
    \* the dispatch queue of the worker (worker.py:110-116, 178-219)
    chat_queue,            \* self._chat_queue
    pending_chat_ids,      \* self._pending_chat_ids
    in_flight,             \* <<>> or <<the chat id _chat_queue_worker is processing>>
    ws_connected,          \* self._ws_connected
    poll_while_ws_connected, \* self.poll_while_ws_connected
    worker_updates_url,    \* whether self.worker_updates_url is set
    deduped,               \* history: the chat ids for which _enqueue_chat returned
                           \* early while the id was no longer in the queue, until
                           \* the next fetch_messages for the id
    \* the relay and the tasks of run_forever (worker.py:88-176, 195-263)
    relay_messages,        \* per chat: the messages the relay holds, as stored
    relay_clock,           \* the relay's count of messages, gives ids and createdAt
    relay_failures,        \* history: failed fetch_messages and post_agent_message
    conversations,         \* self._conversations: per chat the ids its Conversation has seen
    processed_message_ids, \* self._processed_message_ids
    qw,                    \* _chat_queue_worker: where it is and what it holds
    last_handled,          \* history: the visitor message last handled to the end
    ws_pc,                 \* _worker_updates_loop: where it is
    st,                    \* _status_probe_loop and the two ComponentStatus
    \* run_forever and main (worker.py:88-108, main.py:116-149)
    rf                     \* where run_forever is, and which clients are open

gateway_vars == <<max_retries_arg, max_retries, circuit_failures, circuit_cooldown,
                  consecutive_failures, circuit_open_until, now, call,
                  last_failure_at>>

stream_vars == <<sd_pc, content_parts, tool_calls, chunks, message, sd_sent>>

conv_vars == <<turns, seen_message_ids, cv_op, cv_ingested, cv_added, cv_serial>>

loop_vars == <<max_tool_iterations, tl_pc, iteration, chat_calls, messages,
               tl_result, tl_error, tl_last, tl_runs, post>>

queue_vars == <<chat_queue, pending_chat_ids, in_flight, ws_connected,
                poll_while_ws_connected, worker_updates_url, deduped>>

worker_vars == <<relay_messages, relay_clock, relay_failures, conversations,
                 processed_message_ids, qw, last_handled, ws_pc, st>>

main_vars == <<rf>>

vars == <<gateway_vars, stream_vars, conv_vars, loop_vars, queue_vars, worker_vars,
          main_vars>>

\* what the retry loop of the gateway never touches
outside_gateway == <<stream_vars, conv_vars, loop_vars, queue_vars, worker_vars,
                      main_vars>>

\* what stream_once never touches
outside_stream == <<gateway_vars, conv_vars, loop_vars, queue_vars, worker_vars,
                     main_vars>>

\* what the conversation and the tool loop never touch
outside_chat == <<gateway_vars, stream_vars, queue_vars, worker_vars, main_vars>>

\* what the worker's tasks never touch
outside_tasks == <<gateway_vars, stream_vars, conv_vars, loop_vars>>
outside_worker == <<outside_tasks, main_vars>>

\* what _enqueue_chat and its callers never touch
outside_queue == <<outside_worker, worker_vars>>

config == <<max_retries_arg, max_retries, circuit_failures, circuit_cooldown>>

Max(a, b) == IF a >= b THEN a ELSE b
Min(a, b) == IF a <= b THEN a ELSE b

RECURSIVE Pow2(_)
Pow2(n) == IF n <= 0 THEN 1 ELSE 2 * Pow2(n - 1)

(* ------------------------------ helpers -------------------------------- *)
\* self._max_retries = max(1, max_retries)
ClampRetries(r) == Max(1, r)

\* mutant of CircuitOpen: the comparison the wrong way round
CircuitOpenInverted(t) ==
    /\ circuit_open_until # NoDeadline
    /\ circuit_open_until[1] # 0
    /\ t > circuit_open_until[1]

\* if self._circuit_open_until and now < self._circuit_open_until
CircuitOpen(t) ==
    /\ circuit_open_until # NoDeadline
    /\ circuit_open_until[1] # 0
    /\ t < circuit_open_until[1]

\* exc.category in {"timeout", "network", "server_error"}
Retryable(category) == category \in RetryableCategories

\* the except HTTPStatusError branch of _execute_with_retries
StatusCategory(status) ==
    IF status = 401 THEN "auth"
    ELSE IF status >= 500 THEN "server_error"
    ELSE "http_error"

\* stream_once turns every HTTPStatusError into AgentClientError(category="http_error")
StreamStatusCategory(status) == "http_error"

\* mutant of BackoffBase: a linear backoff, min(attempt + 1, 8)
BackoffBaseLinear(attempt) == Min(attempt + 1, BackoffCap)

\* min(2 ** attempt, 8), the whole seconds of the backoff
BackoffBase(attempt) == Min(Pow2(attempt), BackoffCap)

\* min(2 ** attempt, 8) + random.random(), in units of 1/JitterSteps second
Backoff(attempt, jitter) == BackoffBase(attempt) * JitterSteps + jitter

\* attempt == self._max_retries - 1
LastAttempt(attempt) == attempt = max_retries - 1

IdleCall ==
    [pc |-> "idle", stream |-> FALSE, attempt |-> 0, issued |-> 0, sleeps |-> 0,
     delay |-> 0, wake_at |-> 0, result |-> "none", status |-> 0,
     failure |-> "none", half_open |-> FALSE, plan |-> <<>>]

(* --------------------------- circuit state ----------------------------- *)
\* mutant of RecordFailure: the deadline is set below the threshold as well
RecordFailureOpensAlways ==
    /\ consecutive_failures' = consecutive_failures + 1
    /\ circuit_open_until' = <<now + circuit_cooldown>>
    /\ last_failure_at' = <<now>>

\* _record_failure
RecordFailure ==
    /\ consecutive_failures' = consecutive_failures + 1
    /\ circuit_open_until' =
          IF consecutive_failures + 1 >= circuit_failures
          THEN <<now + circuit_cooldown>>
          ELSE circuit_open_until
    /\ last_failure_at' = <<now>>

\* mutant of ResetCircuit: the deadline is left as it was
ResetCounterOnly ==
    /\ consecutive_failures' = 0
    /\ UNCHANGED circuit_open_until
    /\ last_failure_at' = <<>>

\* self._consecutive_failures = 0; self._circuit_open_until = None
ResetCircuit ==
    /\ consecutive_failures' = 0
    /\ circuit_open_until' = NoDeadline
    /\ last_failure_at' = <<>>

(* ------------------------------ Init ----------------------------------- *)
\* stream_once has just been entered: lines 172-174, nothing received yet
StreamStart ==
    /\ sd_pc = "reading"
    /\ content_parts = <<>>
    /\ tool_calls = <<>>
    /\ chunks = <<>>
    /\ message = <<>>
    /\ sd_sent = [frames |-> 0, done |-> FALSE, malformed |-> 0,
                  unread |-> FALSE,
                  calls |-> [id \in {"t1", "t2"} |-> [n |-> 0, args |-> <<>>]]]

\* the parts of the program a specification does not run stay as constructed
GatewayStart ==
    /\ max_retries_arg = 3
    /\ max_retries = 3
    /\ circuit_failures = 3
    /\ circuit_cooldown = 10
    /\ consecutive_failures = 0
    /\ circuit_open_until = <<>>
    /\ now = 1
    /\ call = [c \in Callers |-> IdleCall]
    /\ last_failure_at = <<>>

\* a Conversation as constructed: no turns, nothing seen (context.py:21-23)
ConvStart ==
    /\ turns = <<>>
    /\ seen_message_ids = {}
    /\ cv_op = [name |-> "init", id |-> "None", n |-> 0, ret |-> FALSE]
    /\ cv_ingested = {}
    /\ cv_added = {}
    /\ cv_serial = 0

\* no tool loop running, no non-streaming call made
LoopStart ==
    /\ tl_pc = "idle"
    /\ iteration = 0
    /\ chat_calls = 0
    /\ messages = <<>>
    /\ tl_result = <<>>
    /\ tl_error = <<>>
    /\ tl_last = <<>>
    /\ tl_runs = <<>>
    /\ post = [via |-> "none", pc |-> "idle", body |-> <<>>, category |-> "none"]

\* worker.py:77-84: empty queue, nothing pending, socket not connected
QueueStart ==
    /\ chat_queue = <<>>
    /\ pending_chat_ids = {}
    /\ in_flight = <<>>
    /\ ws_connected = FALSE
    /\ deduped = {}

\* the queue worker waiting in self._chat_queue.get()
IdleWorker ==
    [pc |-> "get", todo |-> <<>>, msg |-> "", outcome |-> <<>>, lost |-> FALSE]

NotHandled ==
    [msg |-> "", kind |-> "none", response |-> "", state |-> "", detail |-> "",
     lost |-> FALSE]

\* run_forever in its while loop, both HTTP clients open; task is the index
\* of the task its finally block is at (0: not there)
Polling == [pc |-> "polling", task |-> 0, agent_open |-> TRUE, relay_open |-> TRUE]

\* worker.py:74-85 and an empty relay: no chat, nothing processed, the tasks of
\* run_forever at their first await
TasksStart ==
    /\ relay_messages = [c \in {"c1", "c2"} |-> <<>>]
    /\ relay_clock = 0
    /\ relay_failures = 0
    /\ conversations = [c \in {"c1", "c2"} |-> {}]
    /\ processed_message_ids = {}
    /\ qw = IdleWorker
    /\ last_handled = NotHandled
    /\ ws_pc = "connecting"
    /\ st = [pc |-> "probing", agent_api |-> "unknown", llm |-> "unknown",
             report |-> "none"]
    /\ rf = Polling

\* the defaults of TerrariumWorker.__init__ (worker.py:55-62)
WorkerDefaults ==
    /\ max_tool_iterations = 8
    /\ poll_while_ws_connected = TRUE
    /\ worker_updates_url = FALSE

InitWith(retries, thresholds, cooldowns) ==
    /\ StreamStart
    /\ ConvStart
    /\ LoopStart
    /\ QueueStart
    /\ TasksStart
    /\ WorkerDefaults
    /\ max_retries_arg \in retries
    /\ max_retries = ClampRetries(max_retries_arg)
    /\ circuit_failures \in thresholds
    /\ circuit_cooldown \in cooldowns
    /\ consecutive_failures = 0
    /\ circuit_open_until = NoDeadline
    /\ now = 1
    /\ call = [c \in Callers |-> IdleCall]
    /\ last_failure_at = <<>>

Init == InitWith(0..MaxRetriesArg, Thresholds, Cooldowns)

(* ------------------------- _execute_with_retries ----------------------- *)
\* chat(stream=...) streams or posts; probe_llm always posts
Streams(c) == IF c = "chat" THEN BOOLEAN ELSE {FALSE}

\* What the backend is going to do with a call: <<>> is anything at all, <<k>> is
\* "the first k attempts fail with a timeout, a network error or a 5xx status
\* and attempt k+1 is answered properly".
AnyPlan == {<<>>}
FailThenSucceedPlans == {<<k>> : k \in 0..(max_retries - 1)}
PlansFor(scripted) ==
    IF scripted THEN AnyPlan \cup FailThenSucceedPlans ELSE AnyPlan

PlanAllowsSuccess(c) ==
    IF call[c].plan = <<>> THEN TRUE ELSE call[c].plan[1] = call[c].attempt

PlanAllowsRetryableFailure(c) ==
    IF call[c].plan = <<>> THEN TRUE ELSE call[c].attempt < call[c].plan[1]

PlanAllowsStatus(c, status) ==
    IF call[c].plan = <<>> THEN TRUE
    ELSE call[c].attempt < call[c].plan[1] /\ status >= 500

Startable(c) == call[c].pc \in {"idle", "done"}

Failing(c) ==
    /\ call[c].pc = "attempt"
    /\ consecutive_failures < MaxFailures + max_retries

\* the frame after "raise": the locals of the loop are gone
Raised(c, category, status) ==
    [call[c] EXCEPT !.pc = "done", !.result = category, !.failure = category,
                    !.status = status, !.delay = 0, !.wake_at = 0]

\* backoff = min(2 ** attempt, 8) + random.random(); await asyncio.sleep(backoff)
Sleeping(c, category, status, jitter) ==
    [call[c] EXCEPT !.pc = "sleep", !.failure = category, !.status = status,
                    !.sleeps = @ + 1,
                    !.delay = Backoff(call[c].attempt, jitter),
                    !.wake_at = now + BackoffBase(call[c].attempt)]

\* mutant of RejectCall: the rejection is recorded as one more failure
RejectCallCounted(c, s) ==
    /\ Startable(c)
    /\ CircuitOpen(now)
    /\ consecutive_failures < MaxFailures + max_retries
    /\ RecordFailure
    /\ call' = [call EXCEPT ![c] =
          [IdleCall EXCEPT !.pc = "done", !.stream = s, !.result = "circuit_open"]]
    /\ UNCHANGED <<outside_gateway, config, now>>

\* lines 228-230: the circuit is open, raise circuit_open
RejectCall(c, s) ==
    /\ Startable(c)
    /\ CircuitOpen(now)
    /\ call' = [call EXCEPT ![c] =
          [IdleCall EXCEPT !.pc = "done", !.stream = s, !.result = "circuit_open"]]
    /\ UNCHANGED <<outside_gateway, config, consecutive_failures, circuit_open_until, now,
                   last_failure_at>>

\* lines 228-233: the circuit check passes and the first func() is awaited
AdmitCall(c, s, p) ==
    /\ Startable(c)
    /\ ~CircuitOpen(now)
    /\ call' = [call EXCEPT ![c] =
          [IdleCall EXCEPT !.pc = "attempt", !.stream = s, !.issued = 1,
                           !.plan = p,
                           !.half_open = (circuit_open_until # NoDeadline)]]
    /\ UNCHANGED <<outside_gateway, config, consecutive_failures, circuit_open_until, now,
                   last_failure_at>>

\* lines 233-236: func() returned
AttemptSucceeds(c) ==
    /\ call[c].pc = "attempt"
    /\ PlanAllowsSuccess(c)
    /\ ResetCircuit
    /\ call' = [call EXCEPT ![c].pc = "done", ![c].result = "ok",
                            ![c].delay = 0, ![c].wake_at = 0]
    /\ UNCHANGED <<outside_gateway, config, now>>

\* lines 237-252: except AgentClientError
HandleAgentClientError(c, category, status) ==
    /\ RecordFailure
    /\ IF ~Retryable(category) \/ LastAttempt(call[c].attempt)
       THEN call' = [call EXCEPT ![c] = Raised(c, category, status)]
       ELSE \E jitter \in 0..(JitterSteps - 1) :
               call' = [call EXCEPT ![c] = Sleeping(c, category, status, jitter)]

\* lines 253-262: except HTTPStatusError, record the failure and raise
HandleHTTPStatusError(c, status) ==
    /\ RecordFailure
    /\ call' = [call EXCEPT ![c] = Raised(c, StatusCategory(status), status)]

\* the backend answers with an error status: _post's send lets raise_for_status's
\* HTTPStatusError through (line 161), stream_once wraps it (lines 177-183)
AttemptHttpError(c, status) ==
    /\ Failing(c)
    /\ PlanAllowsStatus(c, status)
    /\ IF call[c].stream
       THEN HandleAgentClientError(c, StreamStatusCategory(status), status)
       ELSE HandleHTTPStatusError(c, status)
    /\ UNCHANGED <<outside_gateway, config, now>>

\* lines 263-269: except TimeoutException
AttemptTimeout(c) ==
    /\ Failing(c)
    /\ PlanAllowsRetryableFailure(c)
    /\ RecordFailure
    /\ IF LastAttempt(call[c].attempt)
       THEN call' = [call EXCEPT ![c] = Raised(c, "timeout", 0)]
       ELSE \E jitter \in 0..(JitterSteps - 1) :
               call' = [call EXCEPT ![c] = Sleeping(c, "timeout", 0, jitter)]
    /\ UNCHANGED <<outside_gateway, config, now>>

\* lines 270-276: except RequestError
AttemptNetworkError(c) ==
    /\ Failing(c)
    /\ PlanAllowsRetryableFailure(c)
    /\ RecordFailure
    /\ IF LastAttempt(call[c].attempt)
       THEN call' = [call EXCEPT ![c] = Raised(c, "network", 0)]
       ELSE \E jitter \in 0..(JitterSteps - 1) :
               call' = [call EXCEPT ![c] = Sleeping(c, "network", 0, jitter)]
    /\ UNCHANGED <<outside_gateway, config, now>>

\* A 2xx answer that cannot be decoded: response.json() raises JSONDecodeError
\* (line 162), parsed.get raises AttributeError on a frame that is no JSON object
\* (line 195).  No except clause of lines 237-276 catches either: the exception
\* leaves _execute_with_retries as it is and the circuit state is not touched.
AttemptDecodeError(c) ==
    /\ call[c].pc = "attempt"
    /\ call[c].plan = <<>>
    /\ call' = [call EXCEPT ![c].pc = "done", ![c].result = "exception",
                            ![c].failure = "decode",
                            ![c].delay = 0, ![c].wake_at = 0]
    /\ UNCHANGED <<outside_gateway, config, consecutive_failures, circuit_open_until, now,
                   last_failure_at>>

\* asyncio.sleep(backoff) is over: the for loop goes on, func() is awaited again.
\* (Only a frame with attempt < max_retries - 1 sleeps, so the loop never runs
\* out: the raise "Agent retries exhausted" of line 278 is not reachable.)
Wake(c) ==
    /\ call[c].pc = "sleep"
    /\ now >= call[c].wake_at
    /\ call' = [call EXCEPT ![c].pc = "attempt", ![c].attempt = @ + 1,
                            ![c].issued = @ + 1, ![c].failure = "none",
                            ![c].status = 0, ![c].wake_at = 0]
    /\ UNCHANGED <<outside_gateway, config, consecutive_failures, circuit_open_until, now,
                   last_failure_at>>

\* a second goes by
Tick(limit) ==
    /\ now < limit
    /\ now' = now + 1
    /\ UNCHANGED <<outside_gateway, config, consecutive_failures, circuit_open_until, call,
                   last_failure_at>>

CallerStep(c, scripted) ==
    \/ \E s \in Streams(c) : RejectCall(c, s)
    \/ \E s \in Streams(c) : \E p \in PlansFor(scripted) : AdmitCall(c, s, p)
    \/ AttemptSucceeds(c)
    \/ \E status \in Statuses : AttemptHttpError(c, status)
    \/ AttemptTimeout(c)
    \/ AttemptNetworkError(c)
    \/ AttemptDecodeError(c)
    \/ Wake(c)

Next ==
    \/ \E c \in Callers : CallerStep(c, FALSE)
    \/ Tick(MaxTime)

Spec == Init /\ [][Next]_vars

\* One caller and long retry loops: the backoff sequence up to its cap.
InitDeep ==
    InitWith(0..DeepRetriesArg, {2}, {2})

\* the queue worker alone
DeepCallers == {"chat"}

NextDeep ==
    \/ \E c \in DeepCallers : CallerStep(c, TRUE)
    \/ Tick(DeepTime)

SpecDeep == InitDeep /\ [][NextDeep]_vars

(* ------------------- stream_once: the SSE decode loop ------------------ *)
\* Texts are sequences of letters, "".join and + are \o.
CallIds == {"t1", "t2"}
\* the arguments fragment of a tool-call delta
Fragments == {<<"x">>, <<"y">>}

\* One element of delta["tool_calls"], a dict: id is "none" when call.get("id")
\* is None, has_fn says whether it has the key "function", has_args whether
\* that function has the key "arguments".
CallDeltas ==
    [id : CallIds \cup {"none"}, has_fn : {FALSE}, has_args : {FALSE}, args : {<<>>}]
    \cup [id : CallIds, has_fn : {TRUE}, has_args : {FALSE}, args : {<<>>}]
    \cup [id : CallIds, has_fn : {TRUE}, has_args : {TRUE}, args : Fragments]
    \cup [id : {"none"}, has_fn : {TRUE}, has_args : {TRUE}, args : {<<"x">>}]

\* delta["tool_calls"] of one frame: absent or empty, one call, or two calls
\* that carry argument fragments
CallLists ==
    {<<>>}
    \cup {<<d>> : d \in CallDeltas}
    \cup {<<d, e>> : d, e \in [id : CallIds, has_fn : {TRUE}, has_args : {TRUE},
                                args : {<<"x">>}]}

\* The lines response.aiter_lines() yields, by what lines 186-198 make of them:
\*   "empty"     ""                              "other"     no data: prefix
\*   "done"      data: [DONE]                    "notjson"   data: {oops
\*   "array"     data: []  (JSON, not an object) "nochoices" data: {}
\*   "badchoice" data: {"choices": [null]}       "delta"     a choice with a delta
Malformed == {"empty", "other", "notjson", "array", "nochoices", "badchoice"}

PlainLine(kind) ==
    [kind |-> kind, has_content |-> FALSE, content |-> <<>>, calls |-> <<>>]

Lines ==
    {PlainLine(k) : k \in {"empty", "other", "done", "notjson", "array",
                           "nochoices", "badchoice"}}
    \cup [kind : {"delta"}, has_content : {FALSE}, content : {<<>>},
          calls : CallLists]
    \cup [kind : {"delta"}, has_content : {TRUE}, content : {<<"a">>},
          calls : CallLists]
    \cup [kind : {"delta"}, has_content : {TRUE}, content : {<<>>},
          calls : {<<>>}]

\* bool(d) of a call dict: a dict without keys is falsy
Truthy(d) == d.id # "none" \/ d.has_fn

\* next((c for c in tool_calls if c.get("id") == call.get("id")), None), as the
\* index of that entry, 0 for None
FindExisting(tcs, id) ==
    LET hits == {i \in DOMAIN tcs : tcs[i].id = id}
    IN  IF hits = {} THEN 0 ELSE CHOOSE i \in hits : \A j \in hits : i <= j

\* mutant of Concatenated: the fragment replaces the buffer
Overwritten(existing, fragment) == fragment

\* existing_fn.get("arguments", "") + delta_fn["arguments"]
Concatenated(existing, fragment) == existing.args \o fragment

\* lines 205-212: one call of delta["tool_calls"] merged into tool_calls
MergeCall(tcs, delta_call) ==
    LET i == FindExisting(tcs, delta_call.id)
    IN  IF i # 0 /\ Truthy(tcs[i])
        THEN IF delta_call.has_fn /\ delta_call.has_args
             THEN [tcs EXCEPT ![i].has_fn = TRUE, ![i].has_args = TRUE,
                              ![i].args = Concatenated(tcs[i], delta_call.args)]
             ELSE [tcs EXCEPT ![i].has_fn = TRUE]
        ELSE Append(tcs, delta_call)

\* lines 203-212: for call in delta["tool_calls"]
RECURSIVE MergeCalls(_, _)
MergeCalls(tcs, delta_calls) ==
    IF delta_calls = <<>> THEN tcs
    ELSE MergeCalls(MergeCall(tcs, Head(delta_calls)), Tail(delta_calls))

\* "".join(content_parts)
RECURSIVE Join(_)
Join(parts) == IF parts = <<>> THEN <<>> ELSE Head(parts) \o Join(Tail(parts))

\* lines 214-218: the message stream_once returns; no "tool_calls" key (<<>>)
\* when tool_calls is empty
Assembled(parts, tcs) == [content |-> Join(parts), tool_calls |-> tcs]

\* history: the response has carried one more line; decoded says whether
\* stream_once was still reading when it came
Sent(line, decoded) ==
    [sd_sent EXCEPT
        !.frames = @ + 1,
        !.done = @ \/ (decoded /\ line.kind = "done"),
        !.malformed = IF decoded /\ line.kind \in Malformed THEN @ + 1 ELSE @,
        !.unread = @ \/ ~decoded,
        !.calls = [id \in CallIds |->
            LET mine == SelectSeq(line.calls, LAMBDA d : d.id = id)
                frags == [k \in DOMAIN mine |->
                             IF mine[k].has_fn /\ mine[k].has_args
                             THEN mine[k].args ELSE <<>>]
            IN  IF decoded
                THEN [n |-> @[id].n + Len(mine), args |-> @[id].args \o Join(frags)]
                ELSE @[id]]]

Reading(line) ==
    /\ sd_pc = "reading"
    /\ sd_sent.frames < MaxFrames
    /\ sd_sent' = Sent(line, TRUE)

\* lines 186-187, 193-194, 196-197: continue
SkipLine(line) ==
    /\ line.kind \in {"empty", "other", "notjson", "nochoices"}
    /\ Reading(line)
    /\ UNCHANGED <<outside_stream, sd_pc, content_parts, tool_calls, chunks, message>>

\* mutant of DoneLine: [DONE] is skipped like any other line
DoneLineSkipped(line) ==
    /\ line.kind = "done"
    /\ Reading(line)
    /\ UNCHANGED <<outside_stream, sd_pc, content_parts, tool_calls, chunks, message>>

\* lines 189-190 and 214-218: break, and the message is returned
DoneLine(line) ==
    /\ line.kind = "done"
    /\ Reading(line)
    /\ sd_pc' = "finished"
    /\ message' = <<Assembled(content_parts, tool_calls)>>
    /\ UNCHANGED <<outside_stream, content_parts, tool_calls, chunks>>

\* line 195 (parsed.get on a list) and line 198 (choices[0].get on None) raise
\* AttributeError, which nothing in stream_once catches
ShapelessLine(line) ==
    /\ line.kind \in {"array", "badchoice"}
    /\ Reading(line)
    /\ sd_pc' = "failed"
    /\ UNCHANGED <<outside_stream, content_parts, tool_calls, chunks, message>>

\* lines 198-212: a delta
DeltaLine(line) ==
    /\ line.kind = "delta"
    /\ Reading(line)
    /\ IF line.has_content /\ line.content # <<>>
       THEN /\ content_parts' = Append(content_parts, line.content)
            /\ chunks' = Append(chunks, line.content)
       ELSE UNCHANGED <<content_parts, chunks>>
    /\ tool_calls' = MergeCalls(tool_calls, line.calls)
    /\ UNCHANGED <<outside_stream, sd_pc, message>>

\* the response ends without [DONE]: the async for is over, lines 214-218
EndOfStream ==
    /\ sd_pc = "reading"
    /\ sd_pc' = "finished"
    /\ message' = <<Assembled(content_parts, tool_calls)>>
    /\ UNCHANGED <<outside_stream, content_parts, tool_calls, chunks, sd_sent>>

\* what the backend sends after stream_once has left the loop is never read
UnreadLine(line) ==
    /\ sd_pc = "finished"
    /\ sd_sent.frames < MaxFrames
    /\ sd_sent' = Sent(line, FALSE)
    /\ UNCHANGED <<outside_stream, sd_pc, content_parts, tool_calls, chunks, message>>

InitStream ==
    /\ GatewayStart
    /\ StreamStart
    /\ ConvStart
    /\ LoopStart
    /\ QueueStart
    /\ TasksStart
    /\ WorkerDefaults

NextStream ==
    \/ \E line \in Lines : SkipLine(line)
    \/ \E line \in Lines : DoneLine(line)
    \/ \E line \in Lines : ShapelessLine(line)
    \/ \E line \in Lines : DeltaLine(line)
    \/ EndOfStream
    \/ \E line \in Lines : UnreadLine(line)

SpecStream == InitStream /\ [][NextStream]_vars

\* chat(stream=True): stream_once run by _execute_with_retries (agent.py:220)
Streaming == call["chat"].pc = "attempt" /\ call["chat"].stream

\* agent.py:172-174: every attempt calls stream_once anew, with fresh
\* content_parts and tool_calls; on_chunk is the caller's and is not reset
FreshStream ==
    /\ content_parts' = <<>>
    /\ tool_calls' = <<>>
    /\ sd_sent' = [frames |-> 0, done |-> FALSE, malformed |-> 0, unread |-> FALSE,
                   calls |-> [id \in CallIds |-> [n |-> 0, args |-> <<>>]]]
    /\ UNCHANGED <<chunks, message>>

\* The transport fails while the lines are read: aiter_lines raises
\* httpx.ReadTimeout or httpx.ReadError, which leave stream_once and are caught
\* at agent.py:263-276: the failure is recorded and, unless this was the last
\* attempt, the backoff is slept and stream_once is called again.
StreamBreaks(category) ==
    /\ Streaming
    /\ sd_pc = "reading"
    /\ RecordFailure
    /\ IF LastAttempt(call["chat"].attempt)
       THEN /\ call' = [call EXCEPT !["chat"] = Raised("chat", category, 0)]
            /\ sd_pc' = "failed"
            /\ UNCHANGED <<content_parts, tool_calls, chunks, message, sd_sent, now>>
       ELSE /\ call' = [call EXCEPT !["chat"].attempt = @ + 1,
                                    !["chat"].issued = @ + 1,
                                    !["chat"].sleeps = @ + 1,
                                    !["chat"].failure = category]
            /\ now' = now + BackoffBase(call["chat"].attempt)
            /\ FreshStream
            /\ UNCHANGED sd_pc
    /\ UNCHANGED <<config, conv_vars, loop_vars, queue_vars, worker_vars, main_vars>>

\* one chat(stream=True) call on a new gateway
InitRetryStream == InitWith(1..MaxRetriesArg, {2}, {2})

NextRetryStream ==
    \/ AdmitCall("chat", TRUE, <<>>) /\ call["chat"].pc = "idle"
    \/ Streaming /\ \E line \in Lines : SkipLine(line)
    \/ Streaming /\ \E line \in Lines : DoneLine(line)
    \/ Streaming /\ \E line \in Lines : ShapelessLine(line)
    \/ Streaming /\ \E line \in Lines : DeltaLine(line)
    \/ Streaming /\ EndOfStream
    \/ \E category \in {"timeout", "network"} : StreamBreaks(category)
    \/ sd_pc = "finished" /\ AttemptSucceeds("chat")
    \/ sd_pc = "failed" /\ AttemptDecodeError("chat")

SpecRetryStream == InitRetryStream /\ [][NextRetryStream]_vars

(* ------------------------ Conversation (context.py) --------------------- *)
\* message_id: Optional[str] = None
NoMessageId == "None"
\* the strings a message id can be; "" is a str as well
MessageIds == {"", "m1", "m2"}
IngestRoles == {"user", "assistant"}
AddRoles == {"assistant", "tool"}

\* if message_id: (None and "" are falsy)
TruthyId(id) == id # NoMessageId /\ id # ""

\* seq[-n:] for n >= 0; -0 is 0, so seq[-0:] is the whole list
SliceLast(seq, n) ==
    IF n = 0 THEN seq
    ELSE SubSeq(seq, Max(1, Len(seq) - n + 1), Len(seq))

\* context.py:25-29, as [turns, seen] after the call; content is the serial
\* number of the turn
AddTurnTo(conv, role, content, id) ==
    [turns |-> Append(conv.turns,
                      [message_id |-> id, role |-> role, content |-> content]),
     seen |-> IF TruthyId(id) THEN conv.seen \cup {id} ELSE conv.seen]

\* context.py:37-39
Pruned(ts, max_turns) ==
    IF Len(ts) > max_turns THEN SliceLast(ts, max_turns) ELSE ts

\* context.py:44-50, the roles of the returned messages (ts is already pruned)
PromptOf(ts, max_turns) ==
    LET history == SliceLast(ts, max_turns)
    IN  <<"system">> \o [i \in DOMAIN history |-> history[i].role]

Called(name, id, n, ret) == [name |-> name, id |-> id, n |-> n, ret |-> ret]

\* conversation.add_turn(role, content, message_id=id)
AddTurn(role, id) ==
    /\ cv_serial < MaxTurns
    /\ LET after == AddTurnTo([turns |-> turns, seen |-> seen_message_ids],
                              role, cv_serial + 1, id)
       IN  /\ turns' = after.turns
           /\ seen_message_ids' = after.seen
    /\ cv_serial' = cv_serial + 1
    /\ cv_added' = IF id = NoMessageId THEN cv_added ELSE cv_added \cup {id}
    /\ cv_op' = Called("add_turn", id, 0, FALSE)
    /\ UNCHANGED <<outside_chat, loop_vars, cv_ingested>>

\* conversation.ingest(role=role, content=..., message_id=id), already seen
IngestSeen(role, id) ==
    /\ id \in seen_message_ids
    /\ cv_op' = Called("ingest", id, 0, FALSE)
    /\ cv_ingested' = cv_ingested \cup {id}
    /\ UNCHANGED <<outside_chat, loop_vars, turns, seen_message_ids, cv_added, cv_serial>>

\* conversation.ingest(role=role, content=..., message_id=id), not seen
IngestNew(role, id) ==
    /\ id \notin seen_message_ids
    /\ cv_serial < MaxTurns
    /\ LET after == AddTurnTo([turns |-> turns, seen |-> seen_message_ids],
                              role, cv_serial + 1, id)
       IN  /\ turns' = after.turns
           /\ seen_message_ids' = after.seen
    /\ cv_serial' = cv_serial + 1
    /\ cv_op' = Called("ingest", id, 0, TRUE)
    /\ cv_ingested' = cv_ingested \cup {id}
    /\ UNCHANGED <<outside_chat, loop_vars, cv_added>>

\* conversation.prune(max_turns=n)
Prune(n) ==
    /\ turns' = Pruned(turns, n)
    /\ cv_op' = Called("prune", NoMessageId, n, FALSE)
    /\ UNCHANGED <<outside_chat, loop_vars, seen_message_ids, cv_ingested, cv_added,
                   cv_serial>>

\* messages = conversation.to_prompt_messages(system_prompt, max_turns=n)
ToPromptMessages(n) ==
    /\ tl_pc = "idle"
    /\ turns' = Pruned(turns, n)
    /\ messages' = PromptOf(turns', n)
    /\ cv_op' = Called("to_prompt_messages", NoMessageId, n, FALSE)
    /\ UNCHANGED <<outside_chat, seen_message_ids, cv_ingested, cv_added, cv_serial,
                   max_tool_iterations, tl_pc, iteration, chat_calls, tl_result,
                   tl_error, tl_last, tl_runs, post>>

InitConv ==
    /\ GatewayStart
    /\ StreamStart
    /\ ConvStart
    /\ LoopStart
    /\ QueueStart
    /\ TasksStart
    /\ WorkerDefaults

NextConv ==
    \/ \E role \in AddRoles, id \in MessageIds \cup {NoMessageId} : AddTurn(role, id)
    \/ \E role \in IngestRoles, id \in MessageIds : IngestSeen(role, id)
    \/ \E role \in IngestRoles, id \in MessageIds : IngestNew(role, id)
    \/ \E n \in 0..MaxPrune : Prune(n)
    \/ \E n \in 0..MaxPrune : ToPromptMessages(n)

SpecConv == InitConv /\ [][NextConv]_vars

(* ------------- _run_tool_loop and the non-streaming calls --------------- *)
\* The arguments text of a tool call as stream_once hands it over: the key
\* absent (or null), "", an object, text that is not JSON, JSON that is not an
\* object
NoArguments == "<absent>"
ArgumentTexts == {NoArguments, "", "{\"query\": \"x\"}", "{oops", "[1]"}

\* What agent.chat(stream=True) returns to the loop: the accumulated content,
\* the number of entries of message["tool_calls"] (0: key absent) and the
\* arguments text of each entry
Responses ==
    UNION {[content : {<<>>, <<"a">>}, tool_calls : {n},
            arguments : [1..n -> ArgumentTexts]] : n \in 0..MaxCalls}

\* mutant of ArgsRaw: the text is parsed as it comes
ArgsRawUnguarded(text) == text

\* worker.py:295: call.get("function", {}).get("arguments", "") or "{}"
ArgsRaw(text) == IF text \in {NoArguments, ""} THEN "{}" ELSE text

\* json.loads(text): the value, or the exception it raises
JsonLoads(text) ==
    CASE text = NoArguments -> [raises |-> "TypeError", value |-> "none"]
      [] text = "{}" -> [raises |-> "none", value |-> "empty_object"]
      [] text = "{\"query\": \"x\"}" -> [raises |-> "none", value |-> "object"]
      [] text = "[1]" -> [raises |-> "none", value |-> "array"]
      [] OTHER -> [raises |-> "JSONDecodeError", value |-> "none"]

\* worker.py:297-300: except json.JSONDecodeError: args = {}
ParseArguments(text) ==
    LET loaded == JsonLoads(ArgsRaw(text))
    IN  IF loaded.raises = "JSONDecodeError"
        THEN [raises |-> "none", value |-> "empty_object"]
        ELSE loaded

\* tools.py:262-284 and 311-330: a tool that reads its arguments with
\* arguments.get(...) answers {} with an error text and raises AttributeError
\* on a value that is no dict
Execute(args) ==
    CASE args = "empty_object" -> [raises |-> "none", result |-> "query is required"]
      [] args = "object" -> [raises |-> "none", result |-> "results"]
      [] OTHER -> [raises |-> "AttributeError", result |-> "none"]

\* worker.py:293-301: one pass of "for call in tool_calls" up to the tool
\* message
ToolRun(text) ==
    LET parsed == ParseArguments(text)
    IN  IF parsed.raises # "none"
        THEN [text |-> text, arguments |-> "none", executed |-> FALSE,
              raises |-> parsed.raises, result |-> "none"]
        ELSE [text |-> text, arguments |-> parsed.value, executed |-> TRUE,
              raises |-> Execute(parsed.value).raises,
              result |-> Execute(parsed.value).result]

\* worker.py:293-313: the calls in order, up to the first that raises
RECURSIVE ExecuteCalls(_)
ExecuteCalls(texts) ==
    IF texts = <<>> THEN <<>>
    ELSE LET run == ToolRun(Head(texts))
         IN  IF run.raises # "none" THEN <<run>>
             ELSE <<run>> \o ExecuteCalls(Tail(texts))

\* the tool messages a pass appends: one per call that returned
Returned(runs) == Cardinality({i \in DOMAIN runs : runs[i].raises = "none"})

\* the categories _execute_with_retries raises AgentClientError with
GatewayCategories ==
    {"timeout", "network", "server_error", "http_error", "auth", "circuit_open"}

\* AgentClientError(message) without category: category = "unknown"
\* (agent.py:29)
Uncategorised(text) == [category |-> "unknown", text |-> text]

\* worker.py:281 and 313: the assistant turn, then one tool turn per call
RECURSIVE ToolRound(_, _, _)
ToolRound(conv, serial, calls) ==
    IF calls = 0 THEN conv
    ELSE ToolRound(AddTurnTo(conv, "tool", serial + 1, NoMessageId), serial + 1,
                   calls - 1)

\* mutant of RoundMessages: the assistant turn is not sent back
RoundMessagesToolsOnly(calls) == [i \in 1..calls |-> "tool"]

\* worker.py:291 and 311: messages.append per round
RoundMessages(calls) == <<"assistant">> \o [i \in 1..calls |-> "tool"]

\* worker.py:266-272: the prompt is built, the for loop is entered
RunToolLoop ==
    /\ tl_pc = "idle"
    /\ messages = <<>>
    /\ turns' = Pruned(turns, WorkerMaxTurns)
    /\ messages' = PromptOf(turns', WorkerMaxTurns)
    /\ cv_op' = Called("to_prompt_messages", NoMessageId, WorkerMaxTurns, FALSE)
    /\ iteration' = 0
    /\ IF max_tool_iterations <= 0
       THEN /\ tl_pc' = "raised"
            /\ tl_error' = <<Uncategorised("Reached max tool iterations without a response")>>
       ELSE /\ tl_pc' = "calling"
            /\ UNCHANGED tl_error
    /\ UNCHANGED <<outside_chat, seen_message_ids, cv_ingested, cv_added, cv_serial,
                   max_tool_iterations, chat_calls, tl_result, tl_last, tl_runs,
                   post>>

\* worker.py:273-316: the response carries tool calls; they are executed, and
\* the loop continues or, after the last iteration, raises (line 332); an
\* exception of json.loads or of a tool leaves the loop as it is
ChatReturnsToolCalls(response) ==
    /\ tl_pc = "calling"
    /\ response.tool_calls > 0
    /\ chat_calls' = chat_calls + 1
    /\ tl_last' = <<response>>
    /\ LET runs == ExecuteCalls(response.arguments)
           returned == Returned(runs)
           assistant == AddTurnTo([turns |-> turns, seen |-> seen_message_ids],
                                  "assistant", cv_serial + 1, NoMessageId)
           after == ToolRound(assistant, cv_serial + 1, returned)
       IN  /\ tl_runs' = runs
           /\ turns' = after.turns
           /\ seen_message_ids' = after.seen
           /\ cv_serial' = cv_serial + 1 + returned
           /\ messages' = messages \o RoundMessages(returned)
           /\ IF returned < response.tool_calls
              THEN /\ tl_pc' = "raised"
                   /\ tl_error' = <<[category |-> "exception",
                                     text |-> runs[Len(runs)].raises]>>
                   /\ UNCHANGED iteration
              ELSE /\ iteration' = iteration + 1
                   /\ IF iteration + 1 >= max_tool_iterations
                      THEN /\ tl_pc' = "raised"
                           /\ tl_error' = <<Uncategorised("Reached max tool iterations without a response")>>
                      ELSE UNCHANGED <<tl_pc, tl_error>>
    /\ cv_op' = Called("add_turn", NoMessageId, 0, FALSE)
    /\ UNCHANGED <<outside_chat, cv_ingested, cv_added, max_tool_iterations,
                   tl_result, post>>

\* worker.py:318-330: no tool calls; the content is returned, or line 320 raises
ChatReturnsAnswer(response) ==
    /\ tl_pc = "calling"
    /\ response.tool_calls = 0
    /\ chat_calls' = chat_calls + 1
    /\ tl_last' = <<response>>
    /\ tl_runs' = <<>>
    /\ IF response.content = <<>>
       THEN /\ tl_pc' = "raised"
            /\ tl_error' = <<Uncategorised("Terrarium agent returned an empty response")>>
            /\ UNCHANGED tl_result
       ELSE /\ tl_pc' = "returned"
            /\ tl_result' = response.content
            /\ UNCHANGED tl_error
    /\ UNCHANGED <<outside_chat, conv_vars, max_tool_iterations, iteration, messages,
                   post>>

\* worker.py:273: agent.chat raises the gateway's AgentClientError
ChatRaises(category) ==
    /\ tl_pc = "calling"
    /\ chat_calls' = chat_calls + 1
    /\ tl_pc' = "raised"
    /\ tl_error' = <<[category |-> category, text |-> "gateway"]>>
    /\ UNCHANGED <<outside_chat, conv_vars, max_tool_iterations, iteration, messages,
                   tl_result, tl_last, tl_runs, post>>

\* response.json() of a 200 answer: "content" absent, empty or a text
Bodies ==
    {[has_content |-> FALSE, content |-> <<>>],
     [has_content |-> TRUE, content |-> <<>>],
     [has_content |-> TRUE, content |-> <<"a">>]}

Posted(via, pc, body, category) ==
    [via |-> via, pc |-> pc, body |-> body, category |-> category]

\* agent.py:73-96 and 156-164: chat(stream=False) returns response.json()
ChatPostReturns(body) ==
    /\ post' = Posted("chat", "returned", <<body>>, "none")
    /\ UNCHANGED <<outside_chat, conv_vars, max_tool_iterations, tl_pc, iteration,
                   chat_calls, messages, tl_result, tl_error, tl_last, tl_runs>>

\* agent.py:98-104: generate prunes the conversation, calls chat and checks
\* response.get("content", "")
Generate(body) ==
    /\ turns' = Pruned(turns, GenerateMaxTurns)
    /\ cv_op' = Called("to_prompt_messages", NoMessageId, GenerateMaxTurns, FALSE)
    /\ post' = IF body.content = <<>>
               THEN Posted("generate", "raised", <<body>>, "unknown")
               ELSE Posted("generate", "returned", <<body>>, "none")
    /\ UNCHANGED <<outside_chat, seen_message_ids, cv_ingested, cv_added, cv_serial,
                   max_tool_iterations, tl_pc, iteration, chat_calls, messages,
                   tl_result, tl_error, tl_last, tl_runs>>

\* agent.py:120-139: probe_llm ignores the body
ProbeLlm(body) ==
    /\ post' = Posted("probe_llm", "returned", <<body>>, "none")
    /\ UNCHANGED <<outside_chat, conv_vars, max_tool_iterations, tl_pc, iteration,
                   chat_calls, messages, tl_result, tl_error, tl_last, tl_runs>>

\* _post raises the gateway's AgentClientError: chat and generate pass it on,
\* probe_llm catches it and returns "offline"
PostRaises(via, category) ==
    /\ IF via = "generate"
       THEN /\ turns' = Pruned(turns, GenerateMaxTurns)
            /\ cv_op' = Called("to_prompt_messages", NoMessageId, GenerateMaxTurns,
                               FALSE)
       ELSE UNCHANGED <<turns, cv_op>>
    /\ post' = Posted(via, IF via = "probe_llm" THEN "returned" ELSE "raised", <<>>,
                      category)
    /\ UNCHANGED <<outside_chat, seen_message_ids, cv_ingested, cv_added, cv_serial,
                   max_tool_iterations, tl_pc, iteration, chat_calls, messages,
                   tl_result, tl_error, tl_last, tl_runs>>

\* _sync_chat has ingested the visitor's message m1 (worker.py:125-127) and
\* _handle_visitor_message is about to run the loop
InitLoop ==
    /\ GatewayStart
    /\ StreamStart
    /\ QueueStart
    /\ TasksStart
    /\ LoopStart
    /\ turns = <<[message_id |-> "m1", role |-> "user", content |-> 1]>>
    /\ seen_message_ids = {"m1"}
    /\ cv_op = Called("ingest", "m1", 0, TRUE)
    /\ cv_ingested = {"m1"}
    /\ cv_added = {}
    /\ cv_serial = 1
    /\ max_tool_iterations \in 0..MaxIterations
    /\ poll_while_ws_connected = TRUE
    /\ worker_updates_url = FALSE

NextLoop ==
    \/ RunToolLoop
    \/ \E response \in Responses : ChatReturnsToolCalls(response)
    \/ \E response \in Responses : ChatReturnsAnswer(response)
    \/ \E category \in GatewayCategories : ChatRaises(category)
    \/ \E body \in Bodies : ChatPostReturns(body)
    \/ \E body \in Bodies : Generate(body)
    \/ \E body \in Bodies : ProbeLlm(body)
    \/ \E via \in {"chat", "generate", "probe_llm"}, category \in GatewayCategories :
           PostRaises(via, category)

SpecLoop == InitLoop /\ [][NextLoop]_vars

\* _run_tool_loop alone, every tool-call response it can get
NextTools ==
    \/ RunToolLoop
    \/ \E response \in Responses : ChatReturnsToolCalls(response)
    \/ \E response \in Responses : ChatReturnsAnswer(response)
    \/ \E category \in GatewayCategories : ChatRaises(category)

SpecTools == InitLoop /\ [][NextTools]_vars

(* --------------------- the dispatch queue (worker.py) ------------------- *)
ChatIds == {"c1", "c2", "c3"}

\* what relay.fetch_open_chats() returns: up to two chats, a chat possibly
\* listed twice
ChatLists ==
    {<<>>} \cup {<<a>> : a \in ChatIds} \cup {<<a, b>> : a, b \in ChatIds}

\* mutant of EnqueueChat: no look at _pending_chat_ids
EnqueueChatUnchecked(q, chat_id) ==
    [queue |-> Append(q.queue, chat_id),
     pending |-> q.pending \cup {chat_id},
     deduped |-> q.deduped]

\* worker.py:178-182, on [queue, pending, deduped]
EnqueueChat(q, chat_id) ==
    IF chat_id \in q.pending
    THEN [q EXCEPT !.deduped =
                       IF \E i \in DOMAIN q.queue : q.queue[i] = chat_id
                       THEN @ ELSE @ \cup {chat_id}]
    ELSE [queue |-> Append(q.queue, chat_id),
          pending |-> q.pending \cup {chat_id},
          deduped |-> q.deduped]

\* worker.py:115-116: for chat in chats: self._enqueue_chat(chat["id"])
RECURSIVE EnqueueAll(_, _)
EnqueueAll(q, chats) ==
    IF chats = <<>> THEN q
    ELSE EnqueueAll(EnqueueChat(q, Head(chats)), Tail(chats))

Dispatch == [queue |-> chat_queue, pending |-> pending_chat_ids, deduped |-> deduped]

Dispatched(q) ==
    /\ chat_queue' = q.queue
    /\ pending_chat_ids' = q.pending
    /\ deduped' = q.deduped

\* worker.py:110-116: a poll tick that is not skipped
PollTick(chats) ==
    /\ ~(ws_connected /\ ~poll_while_ws_connected)
    /\ Dispatched(EnqueueAll(Dispatch, chats))
    /\ UNCHANGED <<outside_queue, in_flight, ws_connected, poll_while_ws_connected,
                   worker_updates_url>>

\* worker.py:199-201: the worker-updates socket connects
WsConnects ==
    /\ worker_updates_url
    /\ ws_pc = "connecting"
    /\ ~ws_connected
    /\ ws_connected' = TRUE
    /\ ws_pc' = "connected"
    /\ UNCHANGED <<outside_worker, chat_queue, pending_chat_ids, in_flight,
                   poll_while_ws_connected, worker_updates_url, deduped,
                   relay_messages, relay_clock, relay_failures, conversations,
                   processed_message_ids, qw, last_handled, st>>

\* worker.py:203-213: a chat_activity event with a string chatId is read from
\* the socket
ChatActivity(chat_id) ==
    /\ ws_pc = "connected"
    /\ Dispatched(EnqueueChat(Dispatch, chat_id))
    /\ UNCHANGED <<outside_queue, in_flight, ws_connected, poll_while_ws_connected,
                   worker_updates_url>>

\* worker.py:214-218: the socket fails or closes, and the loop comes round to
\* ws_connect again (the wait before it is told apart in WsReadFails and
\* WsCloses)
WsDisconnects ==
    /\ ws_connected
    /\ ws_connected' = FALSE
    /\ ws_pc' = "connecting"
    /\ UNCHANGED <<outside_worker, chat_queue, pending_chat_ids, in_flight,
                   poll_while_ws_connected, worker_updates_url, deduped,
                   relay_messages, relay_clock, relay_failures, conversations,
                   processed_message_ids, qw, last_handled, st>>

\* mutant of QueueGet: a second task takes a chat while one is being processed
QueueGetWhileBusy ==
    /\ chat_queue # <<>>
    /\ in_flight' = Append(in_flight, Head(chat_queue))
    /\ chat_queue' = Tail(chat_queue)
    /\ qw' = [IdleWorker EXCEPT !.pc = "sync"]
    /\ UNCHANGED <<outside_worker, pending_chat_ids, ws_connected,
                   poll_while_ws_connected, worker_updates_url, deduped,
                   relay_messages, relay_clock, relay_failures, conversations,
                   processed_message_ids, last_handled, ws_pc, st>>

\* worker.py:186: chat_id = await self._chat_queue.get()
QueueGet ==
    /\ qw.pc = "get"
    /\ in_flight = <<>>
    /\ chat_queue # <<>>
    /\ in_flight' = <<Head(chat_queue)>>
    /\ chat_queue' = Tail(chat_queue)
    /\ qw' = [IdleWorker EXCEPT !.pc = "sync"]
    /\ UNCHANGED <<outside_worker, pending_chat_ids, ws_connected,
                   poll_while_ws_connected, worker_updates_url, deduped,
                   relay_messages, relay_clock, relay_failures, conversations,
                   processed_message_ids, last_handled, ws_pc, st>>

\* worker.py:187-193: _process_chat returns or raises; finally the id is
\* discarded from _pending_chat_ids
ProcessChatEnds ==
    /\ in_flight # <<>>
    /\ pending_chat_ids' = pending_chat_ids \ {in_flight[1]}
    /\ in_flight' = <<>>
    /\ qw' = IdleWorker
    /\ UNCHANGED <<outside_worker, chat_queue, ws_connected, poll_while_ws_connected,
                   worker_updates_url, deduped, relay_messages, relay_clock,
                   relay_failures, conversations, processed_message_ids,
                   last_handled, ws_pc, st>>

InitQueue ==
    /\ GatewayStart
    /\ StreamStart
    /\ ConvStart
    /\ LoopStart
    /\ QueueStart
    /\ TasksStart
    /\ max_tool_iterations = 8
    /\ poll_while_ws_connected \in BOOLEAN
    /\ worker_updates_url \in BOOLEAN

NextQueue ==
    \/ \E chats \in ChatLists : PollTick(chats)
    \/ WsConnects
    \/ \E chat_id \in ChatIds : ChatActivity(chat_id)
    \/ WsDisconnects
    \/ QueueGet
    \/ ProcessChatEnds

SpecQueue == InitQueue /\ [][NextQueue]_vars

(* ------------- the relay and the queue worker (worker.py) -------------- *)
WorkerChats == {"c1", "c2"}

\* worker.py:91: run_forever starts one _chat_queue_worker task
WorkerCount == 1

\* where the queue worker holds a chat id (worker.py:187-188)
Working == {"sync", "run", "post", "report"}

\* the ids the relay gives its messages, by their number
RelayIds == <<"r1", "r2", "r3", "r4", "r5", "r6", "r7", "r8", "r9", "r10">>

\* worker.py:160 and 166: the two fallback texts
ServiceTroubleText ==
    "I had trouble talking to Terra's core service. Please try again shortly."
UnexpectedIssueText ==
    "Terra hit an unexpected issue. Please try again in a moment."

\* str(exc) of errors the gateway and the loop raise (agent.py:265,
\* worker.py:332)
TimedOutText == "Agent request timed out"
ExhaustedText == "Reached max tool iterations without a response"

\* How _run_tool_loop ends: with an answer after some tool rounds, with an
\* AgentClientError, or with another exception (one a tool or the decoder
\* raised)
Outcomes ==
    [kind : {"answer"}, text : {"final"}, rounds : {0, 1}]
    \cup [kind : {"agent_error"}, text : {TimedOutText}, rounds : {0}]
    \cup [kind : {"agent_error"}, text : {ExhaustedText}, rounds : {2}]
    \cup [kind : {"exception"}, text : {"list index out of range"}, rounds : {0}]

\* mutant of ResponseTo: the visitor's own text is posted back
ResponseEchoed(outcome) == "question"

\* worker.py:155-171: the text posted for an outcome
ResponseTo(outcome) ==
    CASE outcome.kind = "answer" -> outcome.text
      [] outcome.kind = "agent_error" -> ServiceTroubleText
      [] OTHER -> UnexpectedIssueText

\* mutant of WorkerStateFor: the failure is not reported
WorkerStateResponded(outcome) == [state |-> "responded", detail |-> ""]

\* worker.py:152-171: worker_state and worker_state_detail for an outcome
\* (detail "" for None)
WorkerStateFor(outcome) ==
    IF outcome.kind = "answer"
    THEN [state |-> "responded", detail |-> ""]
    ELSE [state |-> "error", detail |-> outcome.text]

\* worker.py:157-164 and 168: self._llm_status.mark
LlmMarkFor(outcome) == IF outcome.kind = "answer" THEN "online" ELSE "offline"

\* the messages of a chat as fetch_messages may return them: in stored order
\* or the other way round
Reversed(seq) == [i \in DOMAIN seq |-> seq[Len(seq) + 1 - i]]
Orders(seq) == {seq, Reversed(seq)}

\* sorted(messages, key=lambda msg: msg["createdAt"]): stable
RECURSIVE InsertByCreatedAt(_, _)
InsertByCreatedAt(sorted, m) ==
    IF sorted = <<>> THEN <<m>>
    ELSE IF sorted[Len(sorted)].createdAt <= m.createdAt
         THEN Append(sorted, m)
         ELSE Append(InsertByCreatedAt(SubSeq(sorted, 1, Len(sorted) - 1), m),
                     sorted[Len(sorted)])

RECURSIVE SortedByCreatedAt(_)
SortedByCreatedAt(msgs) ==
    IF msgs = <<>> THEN <<>>
    ELSE InsertByCreatedAt(SortedByCreatedAt(SubSeq(msgs, 1, Len(msgs) - 1)),
                           msgs[Len(msgs)])

\* worker.py:125-127: every fetched message is ingested; what that does to
\* _seen_message_ids (context.py:26-27 and 32; the turns are in SpecConv)
RECURSIVE IngestAll(_, _)
IngestAll(seen, msgs) ==
    IF msgs = <<>> THEN seen
    ELSE IngestAll(IF TruthyId(Head(msgs).id) THEN seen \cup {Head(msgs).id}
                   ELSE seen,
                   Tail(msgs))

\* mutant of PendingOf: no look at _processed_message_ids
PendingOfAll(sorted, processed) ==
    SelectSeq(sorted, LAMBDA m : m.sender = "Visitor")

\* worker.py:129-133: the visitor messages not yet processed
PendingOf(sorted, processed) ==
    SelectSeq(sorted, LAMBDA m : m.sender = "Visitor" /\ m.id \notin processed)

VisitorMessages(c) == SelectSeq(relay_messages[c], LAMBDA m : m.sender = "Visitor")

VisitorCount == Len(VisitorMessages("c1")) + Len(VisitorMessages("c2"))

\* the relay stores one more message of a chat
Stored(c, sender, answers, content) ==
    /\ relay_clock' = relay_clock + 1
    /\ relay_messages' =
           [relay_messages EXCEPT ![c] =
               Append(@, [id |-> RelayIds[relay_clock + 1], sender |-> sender,
                          createdAt |-> relay_clock + 1, answers |-> answers,
                          content |-> content])]

\* A visitor writes into a chat; the relay stores the message and, when the
\* worker's socket is connected, sends chat_activity, which the worker enqueues
\* (worker.py:208-213). The chat that gets the first message is called c1.
VisitorPosts(c) ==
    /\ VisitorCount < MaxVisitorMessages
    /\ c = "c2" => relay_messages["c1"] # <<>>
    /\ Stored(c, "Visitor", "", "question")
    /\ IF ws_pc = "connected"
       THEN Dispatched(EnqueueChat(Dispatch, c))
       ELSE UNCHANGED <<chat_queue, pending_chat_ids, deduped>>
    /\ UNCHANGED <<outside_worker, in_flight, ws_connected, poll_while_ws_connected,
                   worker_updates_url, relay_failures, conversations,
                   processed_message_ids, qw, last_handled, ws_pc, st>>

\* mutant of ProcessEnds: the id stays in _pending_chat_ids
ProcessEndsLeaking(pc) ==
    /\ in_flight' = <<>>
    /\ qw' = [IdleWorker EXCEPT !.pc = pc]
    /\ UNCHANGED pending_chat_ids

\* worker.py:189-193: _process_chat is over (returned, raised or was
\* cancelled); finally the id is discarded, and the worker is at pc
ProcessEnds(pc) ==
    /\ pending_chat_ids' = pending_chat_ids \ {in_flight[1]}
    /\ in_flight' = <<>>
    /\ qw' = [IdleWorker EXCEPT !.pc = pc]

\* mutant of AfterFailure: the exception ends the worker task
DeadAfterFailure == "dead"

\* worker.py:189-190: except Exception logs, and the while loop goes on
AfterFailure == "get"

\* mutant of SortedForSync: the relay's order is kept
UnsortedForSync(msgs) == msgs

\* worker.py:124
SortedForSync(msgs) == SortedByCreatedAt(msgs)

\* worker.py:122-134: fetch_messages answers; the messages are ingested and
\* the pending visitor messages found
SyncChat ==
    /\ qw.pc = "sync"
    /\ \E fetched \in Orders(relay_messages[in_flight[1]]) :
       LET c == in_flight[1]
           sorted == SortedForSync(fetched)
           todo == PendingOf(sorted, processed_message_ids)
       IN  /\ conversations' =
                  [conversations EXCEPT ![c] = IngestAll(@, sorted)]
           /\ IF todo = <<>>
              THEN ProcessEnds("get")
              ELSE /\ qw' = [qw EXCEPT !.pc = "run", !.todo = todo,
                                       !.msg = Head(todo).id]
                   /\ UNCHANGED <<pending_chat_ids, in_flight>>
    /\ deduped' = deduped \ {in_flight[1]}
    /\ UNCHANGED <<outside_worker, chat_queue, ws_connected, poll_while_ws_connected,
                   worker_updates_url, relay_messages, relay_clock,
                   relay_failures, processed_message_ids, last_handled, ws_pc, st>>

\* worker.py:123: fetch_messages raises; the queue worker catches it
SyncFails ==
    /\ qw.pc = "sync"
    /\ relay_failures < MaxRelayFailures
    /\ relay_failures' = relay_failures + 1
    /\ ProcessEnds(AfterFailure)
    /\ deduped' = deduped \ {in_flight[1]}
    /\ UNCHANGED <<outside_worker, chat_queue, ws_connected, poll_while_ws_connected,
                   worker_updates_url, relay_messages, relay_clock,
                   conversations, processed_message_ids, last_handled, ws_pc, st>>

\* mutant of Swallowed: the failure of a publish call is raised
NotSwallowed(ok) == ok

\* worker.py:248-251, 260-263, 337-346: try / except Exception around the
\* relay call: whether the caller goes on after it
Swallowed(ok) == TRUE

\* worker.py:149-171: the worker-state "processing", the tool loop, the llm
\* status and the response (the turns it adds are in SpecLoop)
HandleRuns(outcome, state_ok) ==
    /\ qw.pc = "run"
    /\ IF Swallowed(state_ok)
       THEN /\ st' = [st EXCEPT !.llm = LlmMarkFor(outcome)]
            /\ qw' = [qw EXCEPT !.pc = "post", !.outcome = <<outcome>>,
                                !.lost = ~state_ok]
            /\ UNCHANGED <<pending_chat_ids, in_flight>>
       ELSE /\ ProcessEnds(AfterFailure)
            /\ UNCHANGED st
    /\ UNCHANGED <<outside_worker, conversations, chat_queue, ws_connected,
                   poll_while_ws_connected,
                   worker_updates_url, deduped, relay_messages, relay_clock,
                   relay_failures, processed_message_ids, last_handled, ws_pc>>

\* worker.py:173: post_agent_message is acknowledged
HandlePosts ==
    /\ qw.pc = "post"
    /\ Stored(in_flight[1], "Agent", qw.msg, ResponseTo(qw.outcome[1]))
    /\ qw' = [qw EXCEPT !.pc = "report"]
    /\ UNCHANGED <<outside_worker, queue_vars, relay_failures, conversations,
                   processed_message_ids, last_handled, ws_pc, st>>

\* worker.py:173: post_agent_message raises; nothing in
\* _handle_visitor_message or _sync_chat catches it
HandlePostFails ==
    /\ qw.pc = "post"
    /\ relay_failures < MaxRelayFailures
    /\ relay_failures' = relay_failures + 1
    /\ ProcessEnds(AfterFailure)
    /\ UNCHANGED <<outside_worker, chat_queue, ws_connected, poll_while_ws_connected,
                   worker_updates_url, deduped, relay_messages, relay_clock,
                   conversations, processed_message_ids, last_handled, ws_pc, st>>

\* worker.py:174-176 and 135-136: the closing chunk, the worker-state and the
\* status report are published, the message is marked processed, and the for
\* loop of _sync_chat goes on or ends
HandleReports(chunk_ok, state_ok, status_ok) ==
    /\ qw.pc = "report"
    /\ IF Swallowed(chunk_ok) /\ Swallowed(state_ok) /\ Swallowed(status_ok)
       THEN /\ processed_message_ids' = processed_message_ids \cup {qw.msg}
            /\ last_handled' =
                   [msg |-> qw.msg, kind |-> qw.outcome[1].kind,
                    response |-> ResponseTo(qw.outcome[1]),
                    state |-> WorkerStateFor(qw.outcome[1]).state,
                    detail |-> WorkerStateFor(qw.outcome[1]).detail,
                    lost |-> qw.lost \/ ~state_ok \/ ~status_ok]
            /\ IF Len(qw.todo) = 1
               THEN ProcessEnds("get")
               ELSE /\ qw' = [IdleWorker EXCEPT !.pc = "run", !.todo = Tail(qw.todo),
                                                !.msg = qw.todo[2].id]
                    /\ UNCHANGED <<pending_chat_ids, in_flight>>
       ELSE /\ ProcessEnds(AfterFailure)
            /\ UNCHANGED <<processed_message_ids, last_handled>>
    /\ UNCHANGED <<outside_worker, chat_queue, ws_connected, poll_while_ws_connected,
                   worker_updates_url, deduped, relay_messages, relay_clock,
                   relay_failures, conversations, ws_pc, st>>

\* Cancelled at its await, the queue worker runs its finally if it holds a
\* chat (worker.py:191-193) and ends
QueueWorkerCancelled ==
    IF in_flight # <<>>
    THEN ProcessEnds("cancelled")
    ELSE /\ qw' = [qw EXCEPT !.pc = "cancelled"]
         /\ UNCHANGED <<pending_chat_ids, in_flight>>

\* worker.py:102: tasks = [status, queue worker, worker updates]
Tasks == <<"status", "queue", "updates">>

\* worker.py:89-92: the worker-updates task is created only with a url
TaskStarted(t) == t = "updates" => worker_updates_url

TaskDone(t) ==
    CASE t = "status" -> st.pc = "cancelled"
      [] t = "queue" -> qw.pc = "cancelled"
      [] OTHER -> ws_pc = "cancelled"

\* task.cancel() was called on t and run_forever is in "await task"
CancelRequested(t) == rf.pc = "awaiting" /\ Tasks[rf.task] = t

\* a task goes on with its loop until it is done or asked to cancel
Running(t) == TaskStarted(t) /\ ~TaskDone(t) /\ ~CancelRequested(t)

\* worker.py:94-101: CancelledError reaches run_forever at its await of tick or
\* sleep; the finally block is entered
RunForeverCancelled ==
    /\ rf.pc = "polling"
    /\ rf' = [rf EXCEPT !.pc = "cancelling", !.task = 1]
    /\ UNCHANGED <<outside_tasks, queue_vars, worker_vars>>

\* the for loop of the finally block has dealt with task rf.task
NextTask ==
    IF rf.task = Len(Tasks)
    THEN [rf EXCEPT !.pc = "returned"]
    ELSE [rf EXCEPT !.pc = "cancelling", !.task = @ + 1]

\* worker.py:103-106: a task that is None is skipped, another is cancelled
CancelTask ==
    /\ rf.pc = "cancelling"
    /\ rf' = IF TaskStarted(Tasks[rf.task]) THEN [rf EXCEPT !.pc = "awaiting"]
             ELSE NextTask
    /\ UNCHANGED <<outside_tasks, queue_vars, worker_vars>>

\* The cancelled task gets CancelledError at its await and ends: the status
\* loop in its except clause (worker.py:231-232), the queue worker after its
\* finally (191-193), the socket loop after clearing the flag (217)
TaskCancelled(t) ==
    /\ CancelRequested(t)
    /\ ~TaskDone(t)
    /\ CASE t = "status" ->
              /\ st' = [st EXCEPT !.pc = "cancelled"]
              /\ UNCHANGED <<qw, pending_chat_ids, in_flight, ws_pc, ws_connected>>
         [] t = "queue" ->
              /\ QueueWorkerCancelled
              /\ UNCHANGED <<st, ws_pc, ws_connected>>
         [] OTHER ->
              /\ ws_pc' = "cancelled"
              /\ ws_connected' = FALSE
              /\ UNCHANGED <<st, qw, pending_chat_ids, in_flight>>
    /\ UNCHANGED <<outside_worker, chat_queue, poll_while_ws_connected,
                   worker_updates_url, deduped, relay_messages, relay_clock,
                   relay_failures, conversations, processed_message_ids,
                   last_handled>>

\* mutant of Awaited: the task is cancelled and not waited for
NotAwaited(t) == TRUE

\* worker.py:107-108: "await task" returns when the task is done
Awaited(t) == TaskDone(t)

AwaitReturns ==
    /\ rf.pc = "awaiting"
    /\ Awaited(Tasks[rf.task])
    /\ rf' = NextTask
    /\ UNCHANGED <<outside_tasks, queue_vars, worker_vars>>

\* main.py:147-149: finally: await agent_client.close()
AgentCloses ==
    /\ rf.pc = "returned"
    /\ rf.agent_open
    /\ rf' = [rf EXCEPT !.agent_open = FALSE]
    /\ UNCHANGED <<outside_tasks, queue_vars, worker_vars>>

\* main.py:120-126: the async with block of the RelayClient is left
\* (relay_client.py:39-40)
RelayCloses ==
    /\ rf.pc = "returned"
    /\ ~rf.agent_open
    /\ rf.relay_open
    /\ rf' = [rf EXCEPT !.relay_open = FALSE]
    /\ UNCHANGED <<outside_tasks, queue_vars, worker_vars>>

\* worker.py:101-108 in one step: run_forever is cancelled, cancels its tasks
\* and has awaited each; the socket loop's finally clears the flag (line 217)
Shutdown ==
    /\ qw.pc # "cancelled"
    /\ QueueWorkerCancelled
    /\ ws_pc' = "cancelled"
    /\ ws_connected' = FALSE
    /\ st' = [st EXCEPT !.pc = "cancelled"]
    /\ rf' = [rf EXCEPT !.pc = "returned", !.task = Len(Tasks)]
    /\ UNCHANGED <<outside_tasks, chat_queue, poll_while_ws_connected,
                   worker_updates_url, deduped, relay_messages, relay_clock,
                   relay_failures, conversations, processed_message_ids,
                   last_handled>>

\* what fetch_open_chats returns: the chats that hold a message, in either order
OpenChatLists ==
    LET open == {c \in WorkerChats : relay_messages[c] # <<>>}
    IN  {chats \in ChatLists :
            /\ {chats[i] : i \in DOMAIN chats} = open
            /\ Len(chats) = Cardinality(open)}

\* worker.py:95-100: one round of the poll loop
PollLoopTicks ==
    /\ qw.pc # "cancelled"
    /\ \E chats \in OpenChatLists : PollTick(chats)

WsLeaves(pc, flag) ==
    /\ ws_pc' = pc
    /\ ws_connected' = flag
    /\ UNCHANGED <<outside_worker, chat_queue, pending_chat_ids, in_flight,
                   poll_while_ws_connected, worker_updates_url, deduped,
                   relay_messages, relay_clock, relay_failures, conversations,
                   processed_message_ids, qw, last_handled, st>>

\* worker.py:200 and 214-216: ws_connect raises; the except clause sleeps
\* worker_ws_retry
WsConnectFails ==
    /\ worker_updates_url
    /\ ws_pc = "connecting"
    /\ WsLeaves("sleeping", ws_connected)

\* worker.py:203-216: reading raises (the connection broke, or a payload that
\* is JSON but no object); the except clause sleeps worker_ws_retry, and
\* _ws_connected stays set until the finally after the sleep
WsReadFails ==
    /\ ws_pc = "connected"
    /\ WsLeaves("sleeping", ws_connected)

\* worker.py:203 and 217-219: the relay closes the connection, async for ends
\* without an exception; finally clears the flag and while True connects again
WsCloses ==
    /\ ws_pc = "connected"
    /\ WsLeaves("connecting", FALSE)

\* worker.py:216-219: asyncio.sleep(self.worker_ws_retry) is over; finally
\* clears the flag and while True connects again
WsRetries ==
    /\ ws_pc = "sleeping"
    /\ WsLeaves("connecting", FALSE)

\* worker.py:221-232: one round of the status loop: the health check, the llm
\* probe (skipped inside its interval, "raises" when probe_llm lets an
\* exception through) and the status report; what the round raises is caught
\* at line 227 and the loop sleeps and goes round again
StatusCycle(api, llm, publish_ok) ==
    /\ st.pc = "probing"
    /\ llm = "skip" => st.llm # "unknown"
    /\ st' = [st EXCEPT !.agent_api = api,
                        !.llm = IF llm \in {"skip", "raises"} THEN @ ELSE llm,
                        !.report = IF llm = "raises" THEN "none"
                                   ELSE IF publish_ok THEN "sent" ELSE "failed"]
    /\ UNCHANGED <<outside_worker, queue_vars, relay_messages, relay_clock,
                   relay_failures, conversations, processed_message_ids, qw,
                   last_handled, ws_pc>>

\* no WORKER_UPDATES_URL: the poll loop and the queue worker over two chats,
\* against a relay whose fetch_messages and post_agent_message may fail and
\* which takes every chunk, worker-state and status report
InitWorker ==
    /\ GatewayStart
    /\ StreamStart
    /\ ConvStart
    /\ LoopStart
    /\ QueueStart
    /\ TasksStart
    /\ max_tool_iterations = 2
    /\ poll_while_ws_connected = TRUE
    /\ worker_updates_url = FALSE

NextWorker ==
    \/ \E c \in WorkerChats : VisitorPosts(c)
    \/ PollLoopTicks
    \/ QueueGet
    \/ SyncChat
    \/ SyncFails
    \/ \E outcome \in Outcomes : HandleRuns(outcome, TRUE)
    \/ HandlePosts
    \/ HandlePostFails
    \/ HandleReports(TRUE, TRUE, TRUE)
    \/ Shutdown

SpecWorker == InitWorker /\ [][NextWorker]_vars

\* WORKER_UPDATES_URL set: the socket loop, the poll loop and the queue worker
\* with visitors in one chat, against a relay that does not fail
InitPush ==
    /\ GatewayStart
    /\ StreamStart
    /\ ConvStart
    /\ LoopStart
    /\ QueueStart
    /\ TasksStart
    /\ max_tool_iterations = 2
    /\ poll_while_ws_connected \in BOOLEAN
    /\ worker_updates_url = TRUE

NextPush ==
    \/ VisitorPosts("c1")
    \/ PollLoopTicks
    \/ \E c \in WorkerChats : ChatActivity(c)
    \/ QueueGet
    \/ SyncChat
    \/ \E outcome \in Outcomes : HandleRuns(outcome, TRUE)
    \/ HandlePosts
    \/ HandleReports(TRUE, TRUE, TRUE)
    \/ WsConnects
    \/ WsConnectFails
    \/ WsReadFails
    \/ WsCloses
    \/ WsRetries
    \/ Shutdown

SpecPush == InitPush /\ [][NextPush]_vars

\* the tasks of run_forever (worker.py:89-100) are scheduled again and again:
\* the queue worker takes its next step, the socket loop connects and comes
\* back from its sleep, and the poll loop, whose ticks come every
\* poll_interval, gets a tick through whenever ticks are let through again and
\* again. Visitors, socket failures and shutdown happen or not.
SpecPushFair ==
    /\ SpecPush
    /\ WF_vars(QueueGet)
    /\ WF_vars(SyncChat)
    /\ WF_vars(\E outcome \in Outcomes : HandleRuns(outcome, TRUE))
    /\ WF_vars(HandlePosts)
    /\ WF_vars(HandleReports(TRUE, TRUE, TRUE))
    /\ SF_vars(PollLoopTicks)
    /\ WF_vars(WsConnects)
    /\ WF_vars(WsRetries)

\* no WORKER_UPDATES_URL: the poll loop, the queue worker and the status loop
\* against a relay whose publish calls may fail
InitStatus ==
    /\ GatewayStart
    /\ StreamStart
    /\ ConvStart
    /\ LoopStart
    /\ QueueStart
    /\ TasksStart
    /\ max_tool_iterations = 2
    /\ poll_while_ws_connected = TRUE
    /\ worker_updates_url = FALSE

NextStatus ==
    \/ VisitorPosts("c1")
    \/ PollLoopTicks
    \/ QueueGet
    \/ SyncChat
    \/ \E outcome \in Outcomes, state_ok \in BOOLEAN : HandleRuns(outcome, state_ok)
    \/ HandlePosts
    \/ \E chunk_ok, state_ok, status_ok \in BOOLEAN :
           HandleReports(chunk_ok, state_ok, status_ok)
    \/ \E api \in {"online", "offline"},
          llm \in {"skip", "online", "offline", "raises"}, publish_ok \in BOOLEAN :
           StatusCycle(api, llm, publish_ok)
    \/ Shutdown

SpecStatus == InitStatus /\ [][NextStatus]_vars

\* Shutdown step by step: the tasks of run_forever at work on one chat, with
\* or without WORKER_UPDATES_URL, when run_forever is cancelled
InitShutdown ==
    /\ GatewayStart
    /\ StreamStart
    /\ ConvStart
    /\ LoopStart
    /\ QueueStart
    /\ TasksStart
    /\ max_tool_iterations = 2
    /\ poll_while_ws_connected = TRUE
    /\ worker_updates_url \in BOOLEAN

NextShutdown ==
    \/ (ws_pc = "connected" => Running("updates")) /\ VisitorPosts("c1")
    \/ rf.pc = "polling" /\ PollLoopTicks
    \/ Running("queue") /\ QueueGet
    \/ Running("queue") /\ SyncChat
    \/ Running("queue") /\ \E outcome \in Outcomes : HandleRuns(outcome, TRUE)
    \/ Running("queue") /\ HandlePosts
    \/ Running("queue") /\ HandleReports(TRUE, TRUE, TRUE)
    \/ Running("updates") /\ WsConnects
    \/ Running("updates") /\ WsReadFails
    \/ Running("updates") /\ WsRetries
    \/ Running("status") /\ StatusCycle("online", "online", TRUE)
    \/ RunForeverCancelled
    \/ CancelTask
    \/ \E t \in {"status", "queue", "updates"} : TaskCancelled(t)
    \/ AwaitReturns
    \/ AgentCloses
    \/ RelayCloses

SpecShutdown == InitShutdown /\ [][NextShutdown]_vars

(* ------------------------------- claims -------------------------------- *)
\* the step starts a call of caller c (only RejectCall and AdmitCall change the
\* frame of a caller that is not inside a call)
StartsCall(c) == Startable(c) /\ call'[c] # call[c]

\* the step ends an attempt of caller c in a failure
AttemptFails(c) ==
    /\ call[c].pc = "attempt"
    /\ \/ call'[c].pc = "sleep"
       \/ call'[c].pc = "done" /\ call'[c].result # "ok"

DeadlineAhead == IF circuit_open_until = <<>> THEN FALSE ELSE now < circuit_open_until[1]

DeadlinePassed == IF circuit_open_until = <<>> THEN FALSE ELSE now >= circuit_open_until[1]

CooldownRunning ==
    IF last_failure_at = <<>> THEN FALSE
    ELSE /\ consecutive_failures >= circuit_failures
         /\ now < last_failure_at[1] + circuit_cooldown

Rejected(frame) ==
    frame.pc = "done" /\ frame.result = "circuit_open" /\ frame.issued = 0

\* C1: a call that starts while open_until is set and in the future is rejected
\* with circuit_open and issues no network attempt; so is every call that starts
\* while the failure count is at the threshold and less than a cooldown has
\* gone by since the last recorded failure.
C1_OpenCircuitRejects ==
    [][\A c \in Callers :
          (StartsCall(c) /\ (DeadlineAhead \/ CooldownRunning)) => Rejected(call'[c])]_vars

C1_Witness ==
    \E c \in Callers :
        /\ Rejected(call[c])
        /\ DeadlineAhead
        /\ CooldownRunning

\* C2 (as claimed): a call that starts once the cooldown is over is admitted, and
\* it issues no second attempt while the failure count is at the threshold.
C2_OneAttemptAfterCooldown ==
    [][\A c \in Callers :
          /\ (StartsCall(c) /\ DeadlinePassed) =>
                (call'[c].pc = "attempt" /\ call'[c].issued = 1)
          /\ (call[c].half_open /\ call[c].pc = "sleep"
                /\ consecutive_failures >= circuit_failures) =>
                call'[c].issued <= 1]_vars

\* C3 (as claimed): a chat call whose first k < max_retries attempts the backend
\* fails with a timeout, a network error or a 5xx status, and whose attempt k+1
\* it answers, returns the answer after k+1 attempts and k backoff sleeps.
C3_FailuresThenSuccess ==
    \A c \in Callers :
        (call[c].pc = "done" /\ call[c].plan # <<>>) =>
            /\ call[c].result = "ok"
            /\ call[c].issued = call[c].plan[1] + 1
            /\ call[c].sleeps = call[c].plan[1]

\* the delay of a sleeping frame is min(2^i, 8) + jitter, jitter in [0, 1)
DelayInRange(frame) ==
    frame.delay - JitterSteps * Min(Pow2(frame.attempt), 8) \in 0..(JitterSteps - 1)

GoesToSleep(c) == call[c].pc = "attempt" /\ call'[c].pc = "sleep"

\* C4 (as claimed): the delay after failed attempt i is min(2^i, 8) + jitter and
\* every delay of a call is greater than the one before it.
C4_StrictlyIncreasing ==
    [][\A c \in Callers :
          GoesToSleep(c) =>
             /\ DelayInRange(call'[c])
             /\ call[c].sleeps >= 1 => call'[c].delay > call[c].delay]_vars

\* C4 (amended): the delay after failed attempt i is min(2^i, 8) + jitter; a delay
\* is greater than the one before it as long as 2^i <= 8, and after that every
\* delay is at least the cap of 8 seconds (and below 9).
C4_IncreasingUntilCap ==
    [][\A c \in Callers :
          GoesToSleep(c) =>
             /\ DelayInRange(call'[c])
             /\ (call[c].sleeps >= 1 /\ Pow2(call[c].attempt) <= 8) =>
                   call'[c].delay > call[c].delay
             /\ Pow2(call[c].attempt) > 8 =>
                   /\ call'[c].delay >= 8 * JitterSteps
                   /\ call[c].delay >= 8 * JitterSteps]_vars

C4_Witness ==
    \E c \in Callers :
        /\ call[c].pc = "sleep"
        /\ call[c].sleeps = 5
        /\ call[c].delay = 8 * JitterSteps

\* C5 (as claimed): a failed attempt is followed by another attempt exactly when
\* its category is timeout, network or server_error and it was not the last one;
\* auth and http_error end the call and are what the caller gets.
C5_RetryByCategory ==
    \A c \in Callers :
        /\ call[c].pc = "sleep" =>
              /\ call[c].failure \in {"timeout", "network", "server_error"}
              /\ call[c].attempt < max_retries - 1
        /\ (call[c].pc = "done"
              /\ call[c].failure \in {"timeout", "network", "server_error"}) =>
              call[c].attempt = max_retries - 1
        /\ (call[c].pc = "done" /\ call[c].failure \in {"auth", "http_error"}) =>
              call[c].result = call[c].failure

\* C6 (as claimed): an error status is reported as auth for 401, server_error
\* from 500 on and http_error otherwise, streaming or not.
C6_StatusMapping ==
    \A c \in Callers :
        call[c].status # 0 =>
            call[c].failure = (IF call[c].status = 401 THEN "auth"
                               ELSE IF call[c].status >= 500 THEN "server_error"
                               ELSE "http_error")

AgentClientErrorCategories ==
    {"timeout", "network", "server_error", "http_error", "auth", "circuit_open",
     "unknown"}

\* C7 (as claimed): an admitted call issues between one and max(1, max_retries)
\* attempts and then returns a result or raises AgentClientError.
C7_BoundedAttempts ==
    \A c \in Callers :
        call[c].issued >= 1 =>
            /\ call[c].issued <= (IF max_retries_arg >= 1 THEN max_retries_arg ELSE 1)
            /\ call[c].pc = "done" =>
                  call[c].result \in {"ok"} \cup AgentClientErrorCategories

\* C8: the step in which a call returns a result leaves consecutive_failures = 0
\* and open_until absent.
C8_SuccessResets ==
    [][\A c \in Callers :
          (call[c].pc = "attempt" /\ call'[c].pc = "done" /\ call'[c].result = "ok") =>
             (consecutive_failures' = 0 /\ circuit_open_until' = <<>>)]_vars

C8_Witness ==
    \E c \in Callers :
        /\ call[c].pc = "done"
        /\ call[c].result = "ok"
        /\ call[c].half_open
        /\ call[c].issued >= 2
        /\ consecutive_failures = 0
        /\ circuit_open_until = <<>>

\* C9 (as claimed): every failed attempt adds exactly one to consecutive_failures,
\* and at the threshold sets open_until = now + cooldown.
C9_EveryFailureCounts ==
    [][\A c \in Callers :
          AttemptFails(c) =>
             /\ consecutive_failures' = consecutive_failures + 1
             /\ consecutive_failures' >= circuit_failures =>
                   circuit_open_until' = <<now + circuit_cooldown>>]_vars

\* C10: the step in which a call is rejected with circuit_open changes neither
\* consecutive_failures nor open_until.
C10_RejectionNotCounted ==
    [][\A c \in Callers :
          (StartsCall(c) /\ call'[c].result = "circuit_open") =>
             UNCHANGED <<consecutive_failures, circuit_open_until>>]_vars

C10_Witness ==
    /\ \A c \in Callers : Rejected(call[c])
    /\ consecutive_failures = circuit_failures
    /\ last_failure_at # <<>>
    /\ circuit_open_until = <<last_failure_at[1] + circuit_cooldown>>

(* --------------------------- claims: streaming --------------------------- *)
\* the entries of a tool-call list that carry the call id
EntriesOf(tcs, id) == {i \in DOMAIN tcs : tcs[i].id = id}

\* one entry for the id, holding every fragment sent for it, in arrival order
Reassembled(tcs, id) ==
    IF sd_sent.calls[id].n = 0
    THEN EntriesOf(tcs, id) = {}
    ELSE /\ Cardinality(EntriesOf(tcs, id)) = 1
         /\ \A i \in EntriesOf(tcs, id) : tcs[i].args = sd_sent.calls[id].args

\* C11: whatever the stream, for every call id the decoder holds exactly one
\* tool call once a delta of that id has arrived (none before), whose arguments
\* are the fragments sent for the id concatenated in arrival order, and the
\* message stream_once returns carries these tool calls.
C11_ReassembledById ==
    /\ \A id \in CallIds : Reassembled(tool_calls, id)
    /\ message # <<>> =>
           \A id \in CallIds : Reassembled(message[1].tool_calls, id)

\* C11 witness: a message was returned for a stream that split the arguments
\* of t1 over three fragments and also carried a delta of t2.
C11_Witness ==
    /\ message # <<>>
    /\ Len(sd_sent.calls["t1"].args) = 3
    /\ sd_sent.calls["t2"].n >= 1
    /\ \E i \in DOMAIN message[1].tool_calls :
           /\ message[1].tool_calls[i].id = "t1"
           /\ Len(message[1].tool_calls[i].args) = 3

\* C12: once a [DONE] frame has been read, no step changes the accumulated
\* content, the tool calls, the chunks handed to on_chunk or the returned
\* message.
C12_DoneTerminates ==
    [][sd_sent.done => UNCHANGED <<content_parts, tool_calls, chunks, message>>]_vars

\* C12 witness: content was decoded, [DONE] was read, and a further line
\* arrived after it.
C12_Witness ==
    /\ sd_sent.done
    /\ sd_sent.unread
    /\ content_parts # <<>>
    /\ message # <<>>

\* C13: a step that reads a malformed line leaves the decoder reading and
\* changes neither the content nor the tool calls.
C13_MalformedSkipped ==
    [][sd_sent'.malformed # sd_sent.malformed =>
           /\ sd_pc' = "reading"
           /\ UNCHANGED <<content_parts, tool_calls, chunks>>]_vars

(* -------------------------- claims: conversation ------------------------- *)
\* C17 (as claimed): an ingest call with an id that ingest has been called with
\* before returns false and leaves the turns as they are; the first ingest call
\* with an id that add_turn has not been given either returns true and adds
\* exactly one turn.
C17_IngestIdempotent ==
    [][cv_op'.name = "ingest" =>
           IF cv_op'.id \in cv_ingested
           THEN ~cv_op'.ret /\ turns' = turns
           ELSE cv_op'.id \notin cv_added =>
                    cv_op'.ret /\ Len(turns') = Len(turns) + 1]_vars

\* C18 (as claimed): after every operation the seen set holds the message id
\* of every turn that has one (is not None), and it never shrinks.
C18_SeenCoversTurns ==
    [][/\ seen_message_ids \subseteq seen_message_ids'
       /\ \A i \in DOMAIN turns' :
              turns'[i].message_id # NoMessageId =>
                  turns'[i].message_id \in seen_message_ids']_vars

\* C19 (as claimed): after prune(max_turns = N), N >= 0, the conversation holds
\* at most N turns, and they are the last min(N, previous length) turns in
\* their order.
C19_PruneKeepsLastN ==
    [][cv_op'.name = "prune" =>
           LET keep == Min(cv_op'.n, Len(turns))
           IN  /\ Len(turns') <= cv_op'.n
               /\ turns' = SubSeq(turns, Len(turns) - keep + 1, Len(turns))]_vars

(* ----------------------- claims: chat and tool loop ---------------------- *)
\* C14 (as claimed): what chat(stream = false) returns has non-empty content.
C14_ChatValidatesContent ==
    post.via = "chat" /\ post.pc = "returned" =>
        post.body[1].has_content /\ post.body[1].content # <<>>

\* C15 (as claimed): the loop makes at most max_tool_iterations chat calls, and
\* when it has ended with every call having returned tool calls, it has raised
\* an error of category tool_iteration_exhausted and returned nothing.
C15_LoopExhausts ==
    /\ chat_calls <= max_tool_iterations
    /\ tl_pc \in {"returned", "raised"} /\ chat_calls >= 1 /\ iteration = chat_calls =>
           /\ tl_pc = "raised"
           /\ tl_result = <<>>
           /\ tl_error[1].category = "tool_iteration_exhausted"

\* C16 (as claimed): when the loop has ended on a response without tool
\* calls, it has returned that response's content if the content is not
\* empty, and raised an error of category empty_response if it is.
C16_AnswerOrEmptyResponse ==
    tl_pc \in {"returned", "raised"} /\ tl_last # <<>> /\ iteration < chat_calls
        /\ tl_last[1].tool_calls = 0 =>
        IF tl_last[1].content # <<>>
        THEN tl_pc = "returned" /\ tl_result = tl_last[1].content
        ELSE /\ tl_pc = "raised"
             /\ tl_result = <<>>
             /\ tl_error[1].category = "empty_response"

(* ------------------------- claims: dispatch queue ------------------------ *)
\* C20: in every reachable state no chat id occurs twice in the dispatch
\* queue, the chat in flight is not in the queue, and the pending set is
\* exactly the queued ids and the one in flight.
C20_EnqueueIdempotent ==
    /\ \A i, j \in DOMAIN chat_queue : chat_queue[i] = chat_queue[j] => i = j
    /\ in_flight # <<>> => \A i \in DOMAIN chat_queue : chat_queue[i] # in_flight[1]
    /\ pending_chat_ids =
           {chat_queue[i] : i \in DOMAIN chat_queue}
               \cup {in_flight[k] : k \in DOMAIN in_flight}

\* C20 witness: an enqueue was turned away while the socket is connected, one
\* chat is in flight and two others wait in the queue.
C20_Witness ==
    /\ deduped # {}
    /\ ws_connected
    /\ in_flight # <<>>
    /\ Len(chat_queue) = 2

(* --------------------- claims: queue worker and relay -------------------- *)
\* C21: in every reachable state the chats being processed are no more than
\* the worker count, no chat id is being processed twice, and a chat is held
\* exactly while the queue worker is inside _process_chat.
C21_OneChatAtATime ==
    /\ Len(in_flight) <= WorkerCount
    /\ \A i, j \in DOMAIN in_flight : in_flight[i] = in_flight[j] => i = j
    /\ in_flight # <<>> <=> qw.pc \in Working

\* C21 witness: a visitor message is being handled while another chat waits
\* in the queue and the socket is connected.
C21_Witness ==
    /\ qw.pc = "run"
    /\ in_flight = <<"c1">>
    /\ chat_queue = <<"c2">>
    /\ ws_connected

\* the relay holds the visitor message id in chat c
Reported(c, id) ==
    \E i \in DOMAIN relay_messages[c] :
        relay_messages[c][i].sender = "Visitor" /\ relay_messages[c][i].id = id

\* the relay holds an agent message posted for the visitor message id
Answered(c, id) ==
    \E i \in DOMAIN relay_messages[c] :
        relay_messages[c][i].sender = "Agent" /\ relay_messages[c][i].answers = id

\* C22 (as claimed): every visitor message the relay holds is eventually
\* answered by an agent message in its chat, unless the worker is shut down.
C22_EveryMessageAnswered ==
    \A c \in WorkerChats : \A k \in DOMAIN RelayIds :
        [](Reported(c, RelayIds[k]) => <>(Answered(c, RelayIds[k]) \/ qw.pc = "cancelled"))

\* the agent messages among msgs that answer the visitor message id
AnswersIn(msgs, id) ==
    {i \in DOMAIN msgs : msgs[i].sender = "Agent" /\ msgs[i].answers = id}

AnswersTo(c, id) == AnswersIn(relay_messages[c], id)

C23_Step ==
    /\ qw.pc = "post" /\ qw'.pc = "report" /\ qw.outcome[1].kind = "answer" =>
           LET before == relay_messages[in_flight[1]]
               after == relay_messages'[in_flight[1]]
           IN  /\ Len(after) = Len(before) + 1
               /\ SubSeq(after, 1, Len(before)) = before
               /\ after[Len(after)].sender = "Agent"
               /\ after[Len(after)].answers = qw.msg
               /\ after[Len(after)].content = qw.outcome[1].text
    /\ qw.pc = "report" /\ qw'.pc \in {"get", "run"} /\ qw.outcome[1].kind = "answer" =>
           /\ last_handled'.msg = qw.msg
           /\ last_handled'.state = "responded"
           /\ last_handled'.detail = ""
           /\ Cardinality(AnswersIn(relay_messages'[in_flight[1]], qw.msg)) = 1

C24_Step ==
    /\ qw.pc = "run" => qw'.pc \in {"run", "post", "cancelled"}
    /\ qw.pc = "post" /\ qw'.pc = "report" /\ qw.outcome[1].kind # "answer" =>
           LET after == relay_messages'[in_flight[1]]
               posted == after[Len(after)]
           IN  /\ Len(after) = Len(relay_messages[in_flight[1]]) + 1
               /\ posted.sender = "Agent"
               /\ posted.answers = qw.msg
               /\ qw.outcome[1].kind = "agent_error" =>
                      posted.content =
                          "I had trouble talking to Terra's core service. Please try again shortly."
               /\ qw.outcome[1].kind = "exception" =>
                      posted.content =
                          "Terra hit an unexpected issue. Please try again in a moment."
    /\ qw.pc = "report" /\ qw'.pc \in {"get", "run"} /\ qw.outcome[1].kind # "answer" =>
           /\ last_handled'.msg = qw.msg
           /\ last_handled'.state = "error"
           /\ last_handled'.detail = qw.outcome[1].text
           /\ qw.outcome[1].text = TimedOutText =>
                  last_handled'.detail = "Agent request timed out"

\* C24: whatever way the tool loop ends, the queue worker goes on to post for
\* the message; after an AgentClientError it posts the service-trouble text,
\* after any other exception the unexpected-issue text, and the worker-state it
\* then reports is error with the exception's text as detail ("Agent request
\* timed out" when the gateway timed out on its last attempt).
C24_FailureGetsFallback == [][C24_Step]_vars

\* C24 witness: the gateway timed out for a visitor message; the
\* service-trouble text was posted for it and error was reported with the
\* timeout text, after an earlier message hit another exception.
C24_Witness ==
    /\ last_handled.kind = "agent_error"
    /\ last_handled.state = "error"
    /\ last_handled.detail = TimedOutText
    /\ \E c \in WorkerChats :
           /\ \E i \in AnswersTo(c, last_handled.msg) :
                  relay_messages[c][i].content = ServiceTroubleText
           /\ \E i \in DOMAIN relay_messages[c] :
                  relay_messages[c][i].content = UnexpectedIssueText

C25_Step ==
    relay_failures' # relay_failures =>
        /\ qw.pc \in Working
        /\ qw'.pc = "get"
        /\ in_flight' = <<>>
        /\ chat_queue' = chat_queue
        /\ in_flight[1] \notin pending_chat_ids'
        /\ processed_message_ids' = processed_message_ids

\* C25: a step in which fetch_messages or post_agent_message fails leaves the
\* queue worker waiting at the queue for its next chat id, with the queue as
\* it was and the failed chat id no longer pending, so that the waiting ids are
\* taken next and the failed id can be enqueued again; in every state the
\* worker is either waiting at the queue, inside the processing of a chat, or
\* cancelled by shutdown (an agent failure keeps it inside, see C24).
C25_FailureKeepsWorker ==
    [][C25_Step /\ qw'.pc \in Working \cup {"get", "cancelled"}]_vars

\* C25 witness: only chat c1 has messages, a relay call failed while it was
\* processed, and the worker is handling it again, its answer posted.
C25_Witness ==
    /\ relay_messages["c2"] = <<>>
    /\ relay_failures = 1
    /\ in_flight = <<"c1">>
    /\ qw.pc = "report"

\* handling of the visitor message id of chat c has begun
Begun(c, id) ==
    \/ AnswersTo(c, id) # {}
    \/ in_flight = <<c>> /\ qw.pc \in {"run", "post", "report"} /\ qw.msg = id

\* C26: in every reachable state, when handling of a visitor message has
\* begun, every visitor message of the same chat with an earlier createdAt has
\* its agent message in the relay.
C26_HandledInTimestampOrder ==
    \A c \in WorkerChats : \A i, j \in DOMAIN relay_messages[c] :
        LET a == relay_messages[c][i]
            b == relay_messages[c][j]
        IN  /\ a.sender = "Visitor"
            /\ b.sender = "Visitor"
            /\ a.createdAt < b.createdAt
            /\ Begun(c, b.id)
            => AnswersTo(c, a.id) # {}

\* C26 witness: one sync of chat c1 found two visitor messages; the first is
\* answered (its answer not yet ingested) and the second is being handled.
C26_Witness ==
    /\ in_flight = <<"c1">>
    /\ qw.pc = "run"
    /\ Len(VisitorMessages("c1")) = 2
    /\ qw.msg = VisitorMessages("c1")[2].id
    /\ \E i \in AnswersTo("c1", VisitorMessages("c1")[1].id) :
           relay_messages["c1"][i].id \notin conversations["c1"]

\* the ids of the visitor messages of chat c not in the processed set
Unprocessed(c) ==
    {relay_messages[c][i].id : i \in {k \in DOMAIN relay_messages[c] :
        /\ relay_messages[c][k].sender = "Visitor"
        /\ relay_messages[c][k].id \notin processed_message_ids}}

C27_Step ==
    /\ processed_message_ids \subseteq processed_message_ids'
    /\ \A id \in processed_message_ids' :
           \E c \in WorkerChats : AnswersIn(relay_messages'[c], id) # {}
    /\ qw.pc = "sync" /\ qw'.pc = "run" =>
           /\ {qw'.todo[i].id : i \in DOMAIN qw'.todo} = Unprocessed(in_flight[1])
           /\ Len(qw'.todo) = Cardinality(Unprocessed(in_flight[1]))
    /\ qw.pc = "sync" /\ qw'.pc = "get" /\ relay_failures' = relay_failures =>
           Unprocessed(in_flight[1]) = {}
    /\ qw'.pc \in {"run", "post", "report"} =>
           \A i \in DOMAIN qw'.todo : qw'.todo[i].id \notin processed_message_ids'
    /\ qw.pc = "post" /\ qw'.pc = "report" => qw.msg \notin processed_message_ids

\* C27: the processed set only grows, and every id in it has its agent message
\* in the relay; a sync that fetched the messages of a chat goes on to handle
\* exactly the visitor messages of the chat that are not in the processed set
\* (among them those ingested by an earlier sync whose handling did not
\* complete); no message in the processed set is handled, and no agent message
\* is posted for one.
C27_ProcessedAfterHandled == [][C27_Step]_vars

\* C27 witness: a relay call failed while chat c1 was processed; its first
\* visitor message was then handled and is in the processed set, its answer
\* has been ingested by a later sync, and that sync handles only the second
\* message.
C27_Witness ==
    /\ relay_messages["c2"] = <<>>
    /\ relay_failures = 1
    /\ Len(VisitorMessages("c1")) = 2
    /\ VisitorMessages("c1")[1].id \in processed_message_ids
    /\ qw.pc = "run"
    /\ qw.todo = <<VisitorMessages("c1")[2]>>
    /\ \E i \in AnswersTo("c1", VisitorMessages("c1")[1].id) :
           relay_messages["c1"][i].id \in conversations["c1"]

(* ------------------------- claims: status reports ------------------------ *)
C28_Step ==
    /\ qw.pc = "run" => qw'.pc \in {"run", "post", "cancelled"}
    /\ qw.pc = "post" /\ qw'.pc # "cancelled" =>
           /\ qw'.pc \in {"post", "report"}
           /\ qw'.pc = "report" =>
                  Cardinality(AnswersIn(relay_messages'[in_flight[1]], qw.msg)) = 1
    /\ qw.pc = "report" /\ qw'.pc \notin {"report", "cancelled"} =>
           /\ qw.msg \in processed_message_ids'
           /\ last_handled'.msg = qw.msg
    /\ qw'.pc \in Working \cup {"get", "cancelled"}
    /\ st.pc = "probing" /\ qw'.pc # "cancelled" => st'.pc = "probing"

\* C28: whether or not the relay takes the worker-state updates and status
\* reports, the handling of a visitor message goes from the tool loop to the
\* post of its agent message and from there to the report, after which the
\* message is in the processed set; the queue worker stays in its loop and the
\* status loop stays in its own until shutdown.
C28_PublishFailuresSwallowed == [][C28_Step]_vars

\* C28 witness: a worker-state update or status report of the handling of a
\* visitor message was lost and the last status report of the status loop
\* failed; the message is answered and processed, the queue worker is back at
\* the queue and the status loop goes on.
C28_Witness ==
    /\ last_handled.lost
    /\ last_handled.msg \in processed_message_ids
    /\ AnswersTo("c1", last_handled.msg) # {}
    /\ st.report = "failed"
    /\ st.pc = "probing"
    /\ qw.pc = "get"

(* --------------------------- claims: socket loop ------------------------- *)
C29_Step ==
    /\ ws_pc = "connecting" => ws_pc' \in {"connecting", "connected", "sleeping", "cancelled"}
    /\ ws_pc = "connected" => ws_pc' \in {"connected", "sleeping", "cancelled"}
    /\ ws_pc = "sleeping" => ws_pc' \in {"sleeping", "connecting", "cancelled"}
    /\ ws_pc' = "cancelled" => qw'.pc = "cancelled"

\* C29 (as claimed): the socket loop goes from connecting to connected or,
\* when the connect fails, to its sleep of worker_ws_retry; from connected,
\* whichever way the connection ends, to that sleep; from the sleep back to
\* connecting; and it ends only when shutdown cancels it.
C29_ReconnectsAfterDelay == [][C29_Step]_vars

(* ------------------------ claims: in-flight chat ids --------------------- *)
C30_Step ==
    /\ qw.pc \in Working /\ qw'.pc \notin Working =>
           /\ in_flight' = <<>>
           /\ in_flight[1] \notin pending_chat_ids'
           /\ qw'.pc \in {"get", "cancelled"}
    /\ qw.pc = "get" /\ qw'.pc \in Working =>
           /\ in_flight = <<>>
           /\ in_flight' = <<Head(chat_queue)>>
           /\ pending_chat_ids' = pending_chat_ids
    /\ pending_chat_ids' =
           {chat_queue'[i] : i \in DOMAIN chat_queue'}
               \cup (IF qw'.pc \in Working THEN {in_flight'[1]} ELSE {})

C35_FlagOnlyWhileLive ==
    ws_pc # "connected" =>
        /\ ~ws_connected
        /\ ~(ws_connected /\ ~poll_while_ws_connected)

\* chat c has a notification (a chat_activity event or a poll sighting) that no
\* fetch_messages has followed yet: its id waits in the queue, or was taken
\* and the fetch is not answered, or an enqueue of it was turned away since
\* the last fetch
Noted(c) ==
    \/ \E i \in DOMAIN chat_queue : chat_queue[i] = c
    \/ in_flight = <<c>> /\ qw.pc = "sync"
    \/ c \in deduped

\* C40 (as claimed): every notification for a chat is eventually followed by
\* a fetch_messages for the chat, unless the worker is shut down.
C40_NotificationFetched ==
    \A c \in WorkerChats : [](Noted(c) => <>(~Noted(c) \/ qw.pc = "cancelled"))

(* ------------------------ claims: circuit and callers -------------------- *)
\* caller c is between its first attempt and its return
InsideCall(c) == call[c].pc \in {"attempt", "sleep"}

\* C36 (as claimed): while one call is between its first attempt and its return,
\* no step of another caller on the same gateway reads the circuit state (starts
\* a call) or changes consecutive_failures or open_until.
C36_RetryLoopsNotInterleaved ==
    [][\A c \in Callers : \A d \in Callers \ {c} :
          (InsideCall(c) /\ call'[d] # call[d]) =>
             /\ ~StartsCall(d)
             /\ UNCHANGED <<consecutive_failures, circuit_open_until>>]_vars

\* the step issues a network attempt of caller c
IssuesAttempt(c) == call'[c].issued = call[c].issued + 1

\* C38 (as claimed): whenever an attempt is issued, the first of a call or a later
\* one, open_until is absent or not in the future.
C38_NoAttemptWhileOpen ==
    [][\A c \in Callers : IssuesAttempt(c) => ~DeadlineAhead]_vars

\* the step ends an attempt of some caller with a result
SomeAttemptSucceeds ==
    \E c \in Callers :
        call[c].pc = "attempt" /\ call'[c].pc = "done" /\ call'[c].result = "ok"

\* C39: open_until is set only if consecutive_failures is at the threshold, and
\* absent when the count is 0; the count goes down only in the step of a success
\* (not when the cooldown runs out), and a failure that is counted at or above
\* the threshold, after a cooldown as well, sets open_until = now + cooldown.
C39_CircuitStateConsistent ==
    /\ [](circuit_open_until # NoDeadline => consecutive_failures >= circuit_failures)
    /\ [](consecutive_failures = 0 => circuit_open_until = NoDeadline)
    /\ [][/\ consecutive_failures' < consecutive_failures => SomeAttemptSucceeds
          /\ (consecutive_failures' > consecutive_failures
                /\ consecutive_failures' >= circuit_failures) =>
                circuit_open_until' = <<now + circuit_cooldown>>]_vars

C39_Witness ==
    \E c \in Callers :
        /\ call[c].half_open
        /\ call[c].pc = "done"
        /\ call[c].result = "timeout"
        /\ call[c].issued = 1
        /\ consecutive_failures = circuit_failures + 1
        /\ DeadlineAhead

(* ----------------------- claims: worker-state updates -------------------- *)
\* "processing" has been sent for the message in hand (worker.py:150) and its
\* handling goes on
Processing == qw.pc \in {"post", "report"}

\* the step ends the handling of the message in hand
HandlingEnds == Processing /\ qw'.msg # qw.msg

\* the step sends worker-state responded or error for the message in hand, its
\* answer posted (worker.py:175)
SendsTerminalState ==
    /\ qw.pc = "report"
    /\ last_handled'.msg = qw.msg
    /\ last_handled'.state \in {"responded", "error"}

\* C37 (as claimed): once processing has been sent for a message, its handling
\* ends only with the step that sends responded or error after the answer was
\* posted: the chat is never left in processing.
C37_NeverLeftInProcessing ==
    [][HandlingEnds => SendsTerminalState]_vars

(* --------------------------- claims: tool calls -------------------------- *)
\* the step takes a response with tool calls through to the "continue" of
\* worker.py:316
RoundEnds ==
    /\ iteration' = iteration + 1
    /\ tl_last' # <<>>
    /\ tl_last'[1].tool_calls > 0

RolesOf(ts) == [i \in DOMAIN ts |-> ts[i].role]

\* C33: a round that ends has appended the assistant turn and then one tool
\* message per call, in the order of the calls and each call executed once, to
\* the outgoing list and to the conversation, so that the next request ends
\* with them.
C33_RoundAppendsTurns ==
    [][RoundEnds =>
          LET n == tl_last'[1].tool_calls
              round == <<"assistant">> \o [i \in 1..n |-> "tool"]
          IN  /\ messages' = messages \o round
              /\ RolesOf(turns') = RolesOf(turns) \o round
              /\ Len(tl_runs') = n
              /\ \A i \in 1..n :
                    /\ tl_runs'[i].text = tl_last'[1].arguments[i]
                    /\ tl_runs'[i].executed
                    /\ tl_runs'[i].raises = "none"]_vars

C33_Witness ==
    /\ tl_pc = "calling"
    /\ chat_calls = 2
    /\ tl_last # <<>>
    /\ tl_last[1].tool_calls = 2
    /\ messages = <<"system", "user", "assistant", "tool", "assistant", "tool", "tool">>
    /\ RolesOf(turns) = Tail(messages)

\* arguments text that is missing, empty or not well-formed JSON
Unusable == {NoArguments, "", "{oops"}

\* C34: a tool call whose arguments text is missing, empty or not JSON is
\* executed with an empty argument object and gets its tool message; a response
\* whose calls have such arguments or an object never ends the loop with an
\* exception: every call is run and the loop goes on (or runs out of
\* iterations).
C34_BadArgumentsNotFatal ==
    tl_last # <<>> /\ tl_last[1].tool_calls > 0 =>
        /\ \A i \in DOMAIN tl_runs :
              tl_runs[i].text \in Unusable =>
                 /\ tl_runs[i].executed
                 /\ tl_runs[i].arguments = "empty_object"
                 /\ tl_runs[i].raises = "none"
        /\ (\A i \in DOMAIN tl_last[1].arguments :
               tl_last[1].arguments[i] \in Unusable \cup {"{\"query\": \"x\"}"}) =>
              /\ Len(tl_runs) = tl_last[1].tool_calls
              /\ SubSeq(messages, Len(messages) - Len(tl_runs), Len(messages))
                    = <<"assistant">> \o [i \in DOMAIN tl_runs |-> "tool"]
              /\ tl_error = <<>> \/ tl_error[1].category # "exception"
              /\ tl_pc = "raised" =>
                    \/ iteration >= max_tool_iterations
                    \/ tl_error[1].category \in GatewayCategories

C34_Witness ==
    /\ tl_pc = "calling"
    /\ tl_last # <<>>
    /\ tl_last[1].arguments = <<"{oops", NoArguments>>
    /\ Len(tl_runs) = 2
    /\ tl_runs[2].arguments = "empty_object"
    /\ tl_runs[2].result = "query is required"

(* ----------------------- claims: chunks and retries ---------------------- *)
\* the streamed chat() call has returned its message
ChatReturned ==
    /\ call["chat"].pc = "done"
    /\ call["chat"].result = "ok"
    /\ call["chat"].stream

\* C32 (as claimed): when a streamed chat() call has returned, the texts given
\* to on_chunk during the call, concatenated in order, are the content of the
\* returned message, also after attempts that failed mid-stream.
C32_ChunksAreTheContent ==
    ChatReturned => Join(chunks) = message[1].content

(* ---------------------------- claims: shutdown --------------------------- *)
\* C31: once run_forever has returned, every task that was started has been
\* cancelled and has ended, and stays so; the agent's and the relay's HTTP
\* clients are closed only after run_forever has returned, hence with no task
\* running.
C31_TasksEndBeforeClose ==
    /\ [](rf.pc = "returned" =>
            \A i \in DOMAIN Tasks : TaskStarted(Tasks[i]) => TaskDone(Tasks[i]))
    /\ []((~rf.agent_open \/ ~rf.relay_open) => rf.pc = "returned")
    /\ [][rf.pc = "returned" =>
            UNCHANGED <<qw, st, ws_pc, ws_connected, chat_queue, in_flight>>]_vars

C31_Witness ==
    /\ rf.pc = "returned"
    /\ ~rf.relay_open
    /\ worker_updates_url
    /\ processed_message_ids # {}
    /\ relay_messages["c1"][Len(relay_messages["c1"])].sender = "Visitor"

====
